----------------------------- MODULE RingBuffer -----------------------------
(***************************************************************************)
(* src/src/port/module/ringBuffer.cpp: the byte ring every port receives   *)
(* into.  Every public method holds m_mutex for its whole body, so each    *)
(* is one action.  A ring of capacity 0 refuses every chunk and is left    *)
(* out.  A chunk or a result that crosses the end of the ring is           *)
(* moved in two pieces, as in the code; the statistics shown by the port   *)
(* monitor are part of the state.                                          *)
(***************************************************************************)
EXTENDS Integers, Sequences, FiniteSets

CONSTANTS Byte,      \* the values a byte may take
          Zero,      \* the byte the ring is filled with
          Capacity,  \* m_capacity
          Chunks,    \* the byte strings a caller may write
          Texts,     \* the terminators a caller may ask readUntil for
          MaxBytes   \* bound on the written bytes the statistics count

ASSUME RingAssumption == /\ Zero \in Byte
                         /\ Capacity \in Nat \ {0}
                         /\ Chunks \subseteq Seq(Byte)
                         /\ Texts \subseteq Seq(Byte)
                         /\ MaxBytes \in Nat

VARIABLES buffer,    \* m_buffer
          readPos,   \* m_readPos
          writePos,  \* m_writePos
          used,      \* m_used
          readCount, readBytes, writeCount, writeBytes,   \* the statistics
          put,       \* the chunk the last call stored, which only a caller knows
          out        \* what the last call returned to its caller

ring == <<buffer, readPos, writePos, used>>
readStats == <<readCount, readBytes>>
writeStats == <<writeCount, writeBytes>>
vars == <<buffer, readPos, writePos, used, readCount, readBytes, writeCount, writeBytes,
          put, out>>

Index == 0 .. Capacity - 1
Least(a, b) == IF a < b THEN a ELSE b

(***************************************************************************)
(* Reading.                                                                *)
(***************************************************************************)

(* The bytes a read of length returns: a piece up to the end of the ring,  *)
(* then a piece from its start.                                            *)
Front(length) ==
    LET first == Least(length, Capacity - readPos)
    IN [k \in 1 .. length |-> IF k <= first THEN buffer[readPos + k - 1]
                                            ELSE buffer[k - first - 1]]

(* readLocked of a length that can be served, with the caller's counting. *)
Consume(length) ==
    /\ put' = << >>
    /\ out' = Front(length)
    /\ readPos' = (readPos + length) % Capacity
    /\ used' = used - length
    /\ readCount' = readCount + 1
    /\ readBytes' = readBytes + length
    /\ UNCHANGED <<buffer, writePos, writeStats>>

ReturnEmpty == /\ put' = << >>
               /\ out' = << >>
               /\ UNCHANGED <<ring, readStats, writeStats>>

(* A request of 0 bytes asks for everything there is. *)
Wanted(length) == IF length = 0 THEN used ELSE length

Read(length) ==
    \/ Wanted(length) \in 1 .. used /\ Consume(Wanted(length))
    \/ Wanted(length) \notin 1 .. used /\ ReturnEmpty

(***************************************************************************)
(* distanceLocked: the Knuth-Morris-Pratt search over the stored bytes.    *)
(* Positions in the text are 0-based as in the code: its text[i] is        *)
(* text[i + 1] here.                                                       *)
(***************************************************************************)

(* The body of both loops: the match falls back until the value goes on    *)
(* from it, and grows by the value if it does.                             *)
Advanced(text, prefix, matched, value) ==
    LET fall[m \in 0 .. matched] ==
            IF m > 0 /\ value # text[m + 1] THEN fall[prefix[m - 1]] ELSE m
    IN IF value = text[fall[matched] + 1] THEN fall[matched] + 1 ELSE fall[matched]

PrefixTable(text) ==
    LET prefix[i \in 0 .. Len(text) - 1] ==
            IF i = 0 THEN 0 ELSE Advanced(text, prefix, prefix[i - 1], text[i + 1])
    IN prefix

(* The n-th of the stored bytes, oldest first. *)
Oldest(n) == buffer[(readPos + n - 1) % Capacity]

(* Mutant: after a mismatch the search starts over. *)
MatchedStartingOver(text, prefix) ==
    LET matched[n \in 0 .. used] ==
            IF n = 0 THEN 0
            ELSE IF matched[n - 1] = Len(text) THEN Len(text)
            ELSE IF Oldest(n) = text[matched[n - 1] + 1] THEN matched[n - 1] + 1
            ELSE IF Oldest(n) = text[1] THEN 1 ELSE 0
    IN matched

(* How much of the text is matched after each stored byte; a full match    *)
(* ends the search.                                                        *)
Matched(text, prefix) ==
    LET matched[n \in 0 .. used] ==
            IF n = 0 THEN 0
            ELSE IF matched[n - 1] = Len(text) THEN Len(text)
            ELSE Advanced(text, prefix, matched[n - 1], Oldest(n))
    IN matched

Distance(text) ==
    IF Len(text) = 0 \/ Len(text) > used THEN -1
    ELSE LET matched == Matched(text, PrefixTable(text))
             ends == {n \in 1 .. used : matched[n] = Len(text)}
         IN IF ends = {} THEN -1 ELSE CHOOSE n \in ends : \A m \in ends : n <= m

ReadUntil(text) ==
    \/ Distance(text) \in 1 .. used /\ Consume(Distance(text))
    \/ Distance(text) \notin 1 .. used /\ ReturnEmpty

(***************************************************************************)
(* Writing and clearing.                                                   *)
(***************************************************************************)

(* Mutant: the piece behind the end of the ring is forgotten. *)
StoredInOnePiece(data) ==
    [i \in Index |-> IF i \in writePos .. writePos + Len(data) - 1
                    THEN data[i - writePos + 1] ELSE buffer[i]]

(* The ring after data is stored at writePos, in one piece or two. *)
Stored(data) ==
    LET first == Least(Len(data), Capacity - writePos)
    IN [i \in Index |-> IF i \in writePos .. writePos + first - 1
                        THEN data[i - writePos + 1]
                        ELSE IF i < Len(data) - first THEN data[first + i + 1] ELSE buffer[i]]

Fits(data) == Len(data) # 0 /\ Len(data) <= Capacity - used

Write(data) ==
    \/ /\ Fits(data)
       /\ writeBytes + Len(data) <= MaxBytes
       /\ buffer' = Stored(data)
       /\ writePos' = (writePos + Len(data)) % Capacity
       /\ used' = used + Len(data)
       /\ writeCount' = writeCount + 1
       /\ writeBytes' = writeBytes + Len(data)
       /\ put' = data
       /\ out' = << >>
       /\ UNCHANGED <<readPos, readStats>>
    \/ ~Fits(data) /\ ReturnEmpty

(* Mutant: writePos is not reset. *)
ClearKeepingWritePos ==
    /\ buffer' = [i \in Index |-> Zero]
    /\ readPos' = 0
    /\ used' = 0
    /\ put' = << >>
    /\ out' = << >>
    /\ UNCHANGED <<writePos, readStats, writeStats>>

Clear ==
    /\ buffer' = [i \in Index |-> Zero]
    /\ readPos' = 0
    /\ writePos' = 0
    /\ used' = 0
    /\ put' = << >>
    /\ out' = << >>
    /\ UNCHANGED <<readStats, writeStats>>

ResetStatistics ==
    /\ readCount' = 0 /\ readBytes' = 0
    /\ writeCount' = 0 /\ writeBytes' = 0
    /\ put' = << >>
    /\ out' = << >>
    /\ UNCHANGED ring

Init ==
    /\ buffer = [i \in Index |-> Zero]
    /\ readPos = 0
    /\ writePos = 0
    /\ used = 0
    /\ readCount = 0 /\ readBytes = 0
    /\ writeCount = 0 /\ writeBytes = 0
    /\ put = << >>
    /\ out = << >>

Next ==
    \/ \E data \in Chunks : Write(data)
    \/ \E length \in 0 .. Capacity + 1 : Read(length)
    \/ \E text \in Texts : ReadUntil(text)
    \/ Clear
    \/ ResetStatistics

Spec == Init /\ [][Next]_vars

-----------------------------------------------------------------------------

(* The stored bytes. *)
Contents == [k \in 1 .. used |-> Oldest(k)]

(* Every field has its type, and the positions stay inside the ring. *)
TypeOK ==
    /\ buffer \in [Index -> Byte]
    /\ readPos \in Index
    /\ writePos \in Index
    /\ used \in 0 .. Capacity
    /\ readStats \in Nat \X Nat
    /\ writeStats \in Nat \X Nat
    /\ put \in Seq(Byte)
    /\ out \in Seq(Byte)

(* The three position fields, updated by different methods, always agree:  *)
(* the next byte is stored right behind the newest one.  A read and a      *)
(* write that wrap at different times (readLocked, write) must keep it.    *)
PositionsAgree == writePos = (readPos + used) % Capacity

(* readUntil's prefix-table search, which runs across the wrap of the      *)
(* ring, finds the end of the first occurrence of the text and nothing     *)
(* else (distanceLocked), as a plain scan of the stored bytes would.       *)
OccursAt(text, n) == n >= Len(text) /\ SubSeq(Contents, n - Len(text) + 1, n) = text
FirstEnd(text) ==
    LET ends == {n \in 1 .. used : OccursAt(text, n)}
    IN IF text = << >> \/ ends = {} THEN -1 ELSE CHOOSE n \in ends : \A m \in ends : n <= m
DistanceFindsFirst == \A text \in Texts : Distance(text) = FirstEnd(text)

(* The ring implements the queue: order, no loss, no duplicate, a chunk    *)
(* that does not fit is refused whole (write, read, readUntil, clear).     *)
Queue == INSTANCE BoundedQueue WITH queue <- Contents
ImplementsQueue == Queue!Spec
=============================================================================
