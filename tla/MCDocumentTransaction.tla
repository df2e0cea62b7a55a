----------------------- MODULE MCDocumentTransaction -----------------------
(***************************************************************************)
(* DocumentTransaction for TLC, in two parts of one run: "others", two     *)
(* calls of any tools with saves, files written by other programs and a    *)
(* watcher that reports at any time; "alone", four calls of tools, the     *)
(* user typing, and a watcher that is always faster than the user.         *)
(***************************************************************************)
EXTENDS DocumentTransaction

VARIABLE part

Two == {"a", "b"}
AllTools == {"edit", "create", "rename", "delete"}

Alone == INSTANCE DocumentTransaction WITH
           MaxTools <- 4, MaxReused <- 0, MaxSaves <- 0, MaxWrites <- 0, MaxEarly <- 0

PartsInit == part \in {"alone", "others"} /\ Init

PartsNext == /\ UNCHANGED part
             /\ \/ part = "alone" /\ Alone!Next
                \/ part = "others" /\ Next

PartsSpec == PartsInit /\ [][PartsNext]_<<vars, part>>
=============================================================================
