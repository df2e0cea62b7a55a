---------------------------- MODULE BoundedQueue ----------------------------
(***************************************************************************)
(* What a receive buffer of a port promises to its two users, the handler  *)
(* that stores what the device sent and the script call that takes it:     *)
(* bytes come out in the order they went in, each at most once, and a      *)
(* chunk that does not fit is refused as a whole.                          *)
(***************************************************************************)
EXTENDS Naturals, Sequences

CONSTANTS Chunks,    \* the byte strings that may be stored
          Capacity   \* how many bytes the queue holds

VARIABLES queue,     \* the bytes stored, oldest first
          put,       \* the chunk the last operation stored
          out        \* what the last operation handed to its caller

Init == /\ queue = << >>
        /\ put = << >>
        /\ out = << >>

(* A chunk is stored whole, or refused. *)
Put(data) == /\ Len(queue) + Len(data) <= Capacity
             /\ queue' = queue \o data
             /\ put' = data
             /\ out' = << >>

(* The n oldest bytes are handed over. *)
Take(n) == /\ n \in 1 .. Len(queue)
           /\ out' = SubSeq(queue, 1, n)
           /\ put' = << >>
           /\ queue' = SubSeq(queue, n + 1, Len(queue))

(* A refused write, or a read that finds too little: nothing moves. *)
Refuse == /\ put' = << >>
          /\ out' = << >>
          /\ UNCHANGED queue

Clear == /\ queue' = << >>
         /\ put' = << >>
         /\ out' = << >>

Next == \/ \E data \in Chunks : Put(data)
        \/ \E n \in 1 .. Capacity : Take(n)
        \/ Refuse
        \/ Clear

Spec == Init /\ [][Next]_<<queue, put, out>>
=============================================================================
