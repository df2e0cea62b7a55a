--------------------------- MODULE MCModbusMaster ---------------------------
(***************************************************************************)
(* ModbusMaster for TLC, in two parts of one run: "late", answers may come *)
(* after the timeout; "timely", no answer does, and the units change their *)
(* registers themselves.                                                   *)
(***************************************************************************)
EXTENDS ModbusMaster

VARIABLE part

Two == {"a", "b"}
TwoUnits == [c \in Two |-> [unit |-> IF c = "a" THEN 1 ELSE 2, id |-> 1]]

Timely == INSTANCE ModbusMaster WITH MaxLate <- 0, LastReg <- 2, MaxDrift <- 1

PartsInit == \/ part = "late" /\ Init
             \/ part = "timely" /\ Timely!Init

PartsNext == /\ UNCHANGED part
             /\ \/ part = "late" /\ Next
                \/ part = "timely" /\ Timely!Next

PartsSpec == PartsInit /\ [][PartsNext]_<<vars, part>>
=============================================================================
