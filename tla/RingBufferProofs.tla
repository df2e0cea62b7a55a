-------------------------- MODULE RingBufferProofs --------------------------
(***************************************************************************)
(* For every capacity, alphabet and set of chunks: the ring keeps its      *)
(* types, its positions agree, it implements BoundedQueue, and the search  *)
(* of readUntil finds what a plain scan would.                             *)
(***************************************************************************)
EXTENDS RingBuffer, SequenceTheorems, WellFoundedInduction, TLAPS

(* Below twice the capacity, wrapping is one subtraction: for a position   *)
(* r, of the byte i places behind it.                                      *)
LEMMA WrapAt ==
    ASSUME NEW r \in Index, NEW i \in 1 .. Capacity
    PROVE  /\ (r + i - 1) % Capacity = IF r + i - 1 < Capacity THEN r + i - 1
                                                             ELSE r + i - 1 - Capacity
           /\ (r + i - 1) % Capacity \in Index
BY RingAssumption DEF Index

LEMMA WrapBehind ==
    ASSUME NEW r \in Index, NEW u \in 0 .. Capacity
    PROVE  /\ (r + u) % Capacity = IF r + u < Capacity THEN r + u ELSE r + u - Capacity
           /\ (r + u) % Capacity \in Index
BY RingAssumption DEF Index

LEMMA WrapAppended ==
    ASSUME NEW r \in Index, NEW u \in 0 .. Capacity, NEW i \in 1 .. Capacity - u
    PROVE  (r + u + i - 1) % Capacity = IF r + u + i - 1 < Capacity THEN r + u + i - 1
                                                                  ELSE r + u + i - 1 - Capacity
BY RingAssumption DEF Index

(* A function on 1 .. n is a string. *)
LEMMA StringOf ==
    ASSUME NEW S, NEW n \in Nat, NEW f \in [1 .. n -> S]
    PROVE  f \in Seq(S) /\ Len(f) = n
OBVIOUS

(* The stored bytes are a string of the alphabet, as long as used says. *)
LEMMA ContentsType ==
    ASSUME TypeOK
    PROVE  /\ Contents \in Seq(Byte)
           /\ Len(Contents) = used
           /\ DOMAIN Contents = 1 .. used
<1>1. ASSUME NEW k \in 1 .. used
      PROVE  (readPos + k - 1) % Capacity \in Index
  BY WrapAt, RingAssumption DEF TypeOK
<1>2. Contents \in [1 .. used -> Byte]
  BY <1>1 DEF TypeOK, Contents, Oldest
<1> QED
  BY <1>2 DEF TypeOK, Contents, Oldest

(* A read that is served returns the oldest bytes, in order, across the    *)
(* end of the ring or not.                                                 *)
LEMMA FrontIsPrefix ==
    ASSUME TypeOK, NEW length \in 1 .. used
    PROVE  /\ Front(length) \in Seq(Byte)
           /\ Front(length) = SubSeq(Contents, 1, length)
<1> DEFINE first == Least(length, Capacity - readPos)
<1>1. first \in Nat /\ first <= length /\ first <= Capacity - readPos
  BY RingAssumption DEF TypeOK, Index, Least
<1>2. ASSUME NEW k \in 1 .. length
      PROVE  Front(length)[k] = Contents[k]
  <2>1. (readPos + k - 1) % Capacity =
          IF readPos + k - 1 < Capacity THEN readPos + k - 1 ELSE readPos + k - 1 - Capacity
    BY WrapAt, RingAssumption DEF TypeOK
  <2> QED
    BY <2>1, RingAssumption DEF TypeOK, Index, Least, Front, Contents, Oldest
<1>3. Front(length) = [k \in 1 .. length |-> Contents[k]]
  BY <1>2 DEF Front
<1>4. length \in Nat /\ length <= Len(Contents) /\ \A k \in 1 .. length : Contents[k] \in Byte
  BY ContentsType DEF TypeOK
<1>5. Front(length) \in Seq(Byte)
  BY <1>3, <1>4, StringOf
<1>6. SubSeq(Contents, 1, length) = [k \in 1 .. length |-> Contents[k]]
  BY <1>4, ContentsType DEF TypeOK
<1> QED
  BY <1>3, <1>5, <1>6
(* What a write stores is the alphabet's, and it lands behind the bytes    *)
(* already there, which stay where they were.                              *)
LEMMA StoredIsAppended ==
    ASSUME TypeOK, PositionsAgree, NEW data \in Seq(Byte), Fits(data)
    PROVE  /\ Stored(data) \in [Index -> Byte]
           /\ \A k \in 1 .. used : Stored(data)[(readPos + k - 1) % Capacity] = Contents[k]
           /\ \A k \in 1 .. Len(data) :
                 Stored(data)[(readPos + used + k - 1) % Capacity] = data[k]
<1> DEFINE first == Least(Len(data), Capacity - writePos)
<1>0. /\ Len(data) \in 1 .. Capacity - used
      /\ \A k \in 1 .. Len(data) : data[k] \in Byte
  BY RingAssumption DEF Fits, TypeOK
<1>1. /\ first \in 1 .. Len(data)
      /\ first <= Capacity - writePos
      /\ first < Len(data) => first = Capacity - writePos
  BY <1>0, RingAssumption DEF TypeOK, Index, Least
<1>a. Stored(data) = [i \in Index |-> IF i \in writePos .. writePos + first - 1
                                     THEN data[i - writePos + 1]
                                     ELSE IF i < Len(data) - first
                                          THEN data[first + i + 1] ELSE buffer[i]]
  BY DEF Stored
<1>b. /\ Capacity \in Nat /\ readPos \in 0 .. Capacity - 1 /\ writePos \in 0 .. Capacity - 1
      /\ used \in 0 .. Capacity
      /\ buffer \in [Index -> Byte]
  BY RingAssumption DEF TypeOK, Index
<1>3. writePos = IF readPos + used < Capacity THEN readPos + used ELSE readPos + used - Capacity
  BY <1>b, WrapBehind DEF PositionsAgree, Index
<1> HIDE DEF first
<1>2. Stored(data) \in [Index -> Byte]
  <2>1. ASSUME NEW i \in Index, i \in writePos .. writePos + first - 1
        PROVE  data[i - writePos + 1] \in Byte
    <3>1. i - writePos + 1 \in 1 .. Len(data)
      BY <1>0, <1>1, <1>b, <2>1 DEF Index
    <3> QED
      BY <1>0, <3>1
  <2>2. ASSUME NEW i \in Index, i < Len(data) - first
        PROVE  data[first + i + 1] \in Byte
    <3>1. first + i + 1 \in 1 .. Len(data)
      BY <1>0, <1>1, <1>b, <2>2 DEF Index
    <3> QED
      BY <1>0, <3>1
  <2>3. \A i \in Index : buffer[i] \in Byte
    BY <1>b
  <2> QED
    BY <1>a, <2>1, <2>2, <2>3
<1> HIDE DEF first
<1>4. ASSUME NEW k \in 1 .. used
      PROVE  Stored(data)[(readPos + k - 1) % Capacity] = Contents[k]
  <2> DEFINE at == (readPos + k - 1) % Capacity
  <2>1. at = IF readPos + k - 1 < Capacity THEN readPos + k - 1 ELSE readPos + k - 1 - Capacity
    BY <1>b, WrapAt DEF Index
  <2>2. Contents[k] = buffer[at]
    BY DEF Contents, Oldest
  <2> HIDE DEF at
  <2>3. at \in 0 .. Capacity - 1 /\ at \notin writePos .. writePos + first - 1
    BY <1>0, <1>1, <1>3, <1>b, <2>1
  <2>4. ~ (at < Len(data) - first)
    BY <1>0, <1>1, <1>3, <1>b, <2>1
  <2>5. Stored(data)[at] = buffer[at]
    BY <1>a, <2>3, <2>4 DEF Index
  <2> QED
    BY <2>2, <2>5 DEF at
<1>5. ASSUME NEW k \in 1 .. Len(data)
      PROVE  Stored(data)[(readPos + used + k - 1) % Capacity] = data[k]
  <2> DEFINE at == (readPos + used + k - 1) % Capacity
  <2>0. readPos + used + k - 1 \in 0 .. 2 * Capacity - 1
    BY <1>0, <1>b
  <2>1. at = IF readPos + used + k - 1 < Capacity THEN readPos + used + k - 1
                                                  ELSE readPos + used + k - 1 - Capacity
    <3>1. readPos \in Index /\ used \in 0 .. Capacity /\ k \in 1 .. Capacity - used
      BY <1>0, <1>b DEF Index
    <3> QED
      BY <3>1, WrapAppended
  <2> HIDE DEF at
  <2>2. CASE k <= first
    <3>1. at = writePos + k - 1
      BY <1>0, <1>1, <1>3, <1>b, <2>0, <2>1, <2>2
    <3>2. at \in 0 .. Capacity - 1 /\ at \in writePos .. writePos + first - 1
          /\ at - writePos + 1 = k
      BY <1>0, <1>1, <1>b, <2>2, <3>1
    <3>3. Stored(data)[at] = data[k]
      BY <1>a, <3>2 DEF Index
    <3> QED
      BY <3>3 DEF at
  <2>3. CASE k > first
    <3>1. at = k - first - 1
      BY <1>0, <1>1, <1>3, <1>b, <2>0, <2>1, <2>3
    <3>2. at \in 0 .. Capacity - 1 /\ at \notin writePos .. writePos + first - 1
          /\ at < Len(data) - first
      BY <1>0, <1>1, <1>b, <2>3, <3>1
    <3>3. first + at + 1 = k
      BY <1>0, <1>1, <2>3, <3>1
    <3>4. Stored(data)[at] = data[k]
      BY <1>a, <3>2, <3>3 DEF Index
    <3> QED
      BY <3>4 DEF at
  <2> QED
    BY <1>0, <1>1, <2>2, <2>3
<1> QED
  BY <1>2, <1>4, <1>5
-----------------------------------------------------------------------------

(* What is inductive: the types and the agreement of the positions. *)
IInv == TypeOK /\ PositionsAgree

LEMMA InitInv == Init => IInv
BY WrapBehind, RingAssumption DEF Init, IInv, TypeOK, PositionsAgree, Index, readStats, writeStats

(* A served read keeps the invariant and is a Take of the queue. *)
LEMMA ConsumeStep ==
    ASSUME IInv, NEW length \in 1 .. used, Consume(length)
    PROVE  IInv' /\ Queue!Take(length)
<1>1. /\ readPos \in Index /\ used \in 0 .. Capacity /\ length \in 1 .. Capacity
      /\ Capacity \in Nat \ {0} /\ readPos \in 0 .. Capacity - 1 /\ buffer \in [Index -> Byte]
  BY RingAssumption DEF IInv, TypeOK, Index
<1>a. /\ readPos' = (readPos + length) % Capacity
      /\ used' = used - length
      /\ buffer' = buffer /\ writePos' = writePos
  BY DEF Consume
<1>b. (readPos + length) % Capacity =
         IF readPos + length < Capacity THEN readPos + length ELSE readPos + length - Capacity
  BY <1>1, WrapBehind
<1>2. /\ readPos' = IF readPos + length < Capacity THEN readPos + length ELSE readPos + length - Capacity
      /\ readPos' \in Index
      /\ used' = used - length
      /\ buffer' = buffer /\ writePos' = writePos
  BY <1>1, <1>a, <1>b DEF Index
<1>3. TypeOK'
  <2>1. put' \in Seq(Byte) /\ out' \in Seq(Byte)
    BY FrontIsPrefix DEF Consume, IInv
  <2>2. readStats' \in Nat \X Nat /\ writeStats' \in Nat \X Nat
    BY <1>1 DEF Consume, IInv, TypeOK, readStats, writeStats
  <2>3. used' \in 0 .. Capacity
    BY <1>1, <1>2
  <2> QED
    BY <1>1, <1>2, <2>1, <2>2, <2>3 DEF IInv, TypeOK
<1>4. PositionsAgree'
  <2>1. writePos = IF readPos + used < Capacity THEN readPos + used ELSE readPos + used - Capacity
    BY <1>1, WrapBehind DEF IInv, PositionsAgree
  <2>2. (readPos' + used') % Capacity =
          IF readPos' + used' < Capacity THEN readPos' + used' ELSE readPos' + used' - Capacity
    BY <1>1, <1>2, WrapBehind
  <2> QED
    BY <1>1, <1>2, <2>1, <2>2 DEF PositionsAgree, Index
<1>5. ASSUME NEW k \in 1 .. used - length
      PROVE  (readPos' + k - 1) % Capacity = (readPos + (k + length) - 1) % Capacity
  <2>1. (readPos' + k - 1) % Capacity =
          IF readPos' + k - 1 < Capacity THEN readPos' + k - 1 ELSE readPos' + k - 1 - Capacity
    BY <1>1, <1>2, WrapAt
  <2>2. k + length \in 1 .. Capacity
    BY <1>1
  <2>3. (readPos + (k + length) - 1) % Capacity =
          IF readPos + (k + length) - 1 < Capacity THEN readPos + (k + length) - 1
                                                 ELSE readPos + (k + length) - 1 - Capacity
    BY <1>1, <2>2, WrapAt
  <2> QED
    BY <1>1, <1>2, <2>1, <2>2, <2>3
<1>6. Contents' = SubSeq(Contents, length + 1, Len(Contents))
  <2>1. Contents' = [k \in 1 .. used - length |-> buffer[(readPos' + k - 1) % Capacity]]
    BY <1>2 DEF Contents, Oldest
  <2>2. SubSeq(Contents, length + 1, Len(Contents)) = [k \in 1 .. used - length |-> Contents[k + length]]
    BY <1>1, ContentsType DEF IInv
  <2>3. \A k \in 1 .. used - length : Contents[k + length] = buffer[(readPos' + k - 1) % Capacity]
    BY <1>1, <1>5 DEF Contents, Oldest
  <2> QED
    BY <2>1, <2>2, <2>3
<1>7. Queue!Take(length)
  BY <1>6, FrontIsPrefix, ContentsType DEF Queue!Take, Consume, IInv
<1> QED
  BY <1>3, <1>4, <1>7 DEF IInv

(* A write that fits keeps the invariant and is a Put of the queue. *)
LEMMA WriteStep ==
    ASSUME IInv, NEW data \in Chunks, Write(data), Fits(data)
    PROVE  IInv' /\ Queue!Put(data)
<1>0. data \in Seq(Byte) /\ Len(data) \in 1 .. Capacity - used
  BY RingAssumption DEF Fits, IInv, TypeOK
<1>1. /\ readPos \in Index /\ writePos \in Index /\ used \in 0 .. Capacity
      /\ Capacity \in Nat \ {0} /\ readPos \in 0 .. Capacity - 1 /\ writePos \in 0 .. Capacity - 1
  BY RingAssumption DEF IInv, TypeOK, Index
<1>2. /\ buffer' = Stored(data)
      /\ writePos' = (writePos + Len(data)) % Capacity
      /\ used' = used + Len(data)
      /\ readPos' = readPos
      /\ put' = data
      /\ out' = << >>
  BY DEF Write
<1>3. /\ writePos' = IF writePos + Len(data) < Capacity THEN writePos + Len(data)
                                                       ELSE writePos + Len(data) - Capacity
      /\ writePos' \in Index
  <2>1. Len(data) \in 0 .. Capacity
    BY <1>0, <1>1
  <2> QED
    BY <1>1, <1>2, <2>1, WrapBehind
<1>4. TypeOK'
  <2>1. buffer' \in [Index -> Byte]
    BY <1>0, <1>2, StoredIsAppended DEF IInv
  <2>2. readStats' \in Nat \X Nat /\ writeStats' \in Nat \X Nat
    BY <1>0, <1>1 DEF Write, IInv, TypeOK, readStats, writeStats
  <2>3. used' \in 0 .. Capacity
    BY <1>0, <1>1, <1>2
  <2>4. put' \in Seq(Byte) /\ out' \in Seq(Byte)
    BY <1>0, <1>2
  <2> QED
    BY <1>1, <1>2, <1>3, <2>1, <2>2, <2>3, <2>4 DEF TypeOK
<1>5. PositionsAgree'
  <2>1. writePos = IF readPos + used < Capacity THEN readPos + used ELSE readPos + used - Capacity
    BY <1>1, WrapBehind DEF IInv, PositionsAgree
  <2>2. used' \in 0 .. Capacity
    BY <1>0, <1>1, <1>2
  <2>3. (readPos' + used') % Capacity =
          IF readPos' + used' < Capacity THEN readPos' + used' ELSE readPos' + used' - Capacity
    BY <1>1, <1>2, <2>2, WrapBehind
  <2>4. writePos' = IF readPos' + used' < Capacity THEN readPos' + used' ELSE readPos' + used' - Capacity
    <3> DEFINE length == Len(data)
    <3>1. /\ length \in 1 .. Capacity - used /\ used' = used + length /\ readPos' = readPos
          /\ writePos' = IF writePos + length < Capacity THEN writePos + length
                                                       ELSE writePos + length - Capacity
      BY <1>0, <1>2, <1>3
    <3> HIDE DEF length
    <3> QED
      BY <1>1, <2>1, <3>1
  <2> QED
    BY <2>3, <2>4 DEF PositionsAgree
<1>6. Contents' = Contents \o data
  <2>1. Contents' = [k \in 1 .. used + Len(data) |-> Stored(data)[(readPos + k - 1) % Capacity]]
    BY <1>2 DEF Contents, Oldest
  <2>2. /\ \A k \in 1 .. used : Stored(data)[(readPos + k - 1) % Capacity] = Contents[k]
        /\ \A k \in 1 .. Len(data) :
              Stored(data)[(readPos + used + k - 1) % Capacity] = data[k]
    BY <1>0, StoredIsAppended DEF IInv
  <2>3. ASSUME NEW k \in 1 .. used + Len(data)
        PROVE  Contents'[k] = IF k <= used THEN Contents[k] ELSE data[k - used]
    <3>1. Contents'[k] = Stored(data)[(readPos + k - 1) % Capacity]
      BY <2>1
    <3>2. ASSUME k <= used
          PROVE  Contents'[k] = Contents[k]
      <4>1. k \in 1 .. used
        BY <1>0, <1>1, <3>2
      <4> QED
        BY <2>2, <3>1, <4>1
    <3>3. ASSUME ~(k <= used)
          PROVE  Contents'[k] = data[k - used]
      <4>1. k - used \in 1 .. Len(data)
        BY <1>0, <1>1, <3>3
      <4>2. Stored(data)[(readPos + used + (k - used) - 1) % Capacity] = data[k - used]
        BY <2>2, <4>1
      <4>3. readPos + used + (k - used) - 1 = readPos + k - 1
        BY <1>0, <1>1, <3>3
      <4> QED
        BY <3>1, <4>2, <4>3
    <3> QED
      BY <3>2, <3>3
  <2>4. /\ Contents \in Seq(Byte) /\ Len(Contents) = used
        /\ used \in Nat /\ Len(data) \in Nat /\ used + Len(data) \in Nat
    BY <1>0, <1>1, ContentsType DEF IInv
  <2>5. Contents' \in [1 .. used + Len(data) -> Byte]
    <3>1. \A k \in 1 .. used + Len(data) : Contents'[k] \in Byte
      BY <1>0, <1>1, <2>3, <2>4
    <3> QED
      BY <2>1, <3>1
  <2>6. Contents' \in Seq(Byte) /\ Len(Contents') = used + Len(data)
    BY <2>4, <2>5, StringOf
  <2>7. /\ Contents \o data \in Seq(Byte) /\ Len(Contents \o data) = used + Len(data)
        /\ \A k \in 1 .. used + Len(data) :
              (Contents \o data)[k] = IF k <= used THEN Contents[k] ELSE data[k - used]
    BY <1>0, <2>4, ConcatProperties
  <2> QED
    BY <2>3, <2>6, <2>7, SeqEqual
<1>7. Queue!Put(data)
  BY <1>0, <1>1, <1>2, <1>6, ContentsType DEF Queue!Put, IInv
<1> QED
  BY <1>4, <1>5, <1>7 DEF IInv

(* An unserved request changes nothing but the answer. *)
LEMMA EmptyStep ==
    ASSUME IInv, ReturnEmpty
    PROVE  IInv' /\ Queue!Refuse
<1>1. /\ buffer' = buffer /\ readPos' = readPos /\ writePos' = writePos
      /\ used' = used /\ put' = << >> /\ out' = << >>
      /\ readStats' = readStats /\ writeStats' = writeStats
  BY DEF ReturnEmpty, ring
<1> QED
  BY <1>1 DEF IInv, TypeOK, PositionsAgree, Queue!Refuse, Contents, Oldest

(* Every step keeps the invariant and is a step or a stutter of the queue. *)
LEMMA NextInv ==
    ASSUME IInv, [Next]_vars
    PROVE  IInv' /\ [Queue!Next]_<<Contents, put, out>>
<1>0. used \in 0 .. Capacity /\ Capacity \in Nat \ {0}
  BY RingAssumption DEF IInv, TypeOK
<1>1. ASSUME NEW data \in Chunks, Write(data)
      PROVE  IInv' /\ [Queue!Next]_<<Contents, put, out>>
  <2>1. CASE Fits(data)
    BY <1>1, <2>1, WriteStep DEF Queue!Next
  <2>2. CASE ReturnEmpty
    BY <2>2, EmptyStep DEF Queue!Next
  <2> QED
    BY <1>1, <2>1, <2>2 DEF Write
<1>2. ASSUME NEW length \in 1 .. used, Consume(length)
      PROVE  IInv' /\ [Queue!Next]_<<Contents, put, out>>
  <2>1. length \in 1 .. Capacity
    BY <1>0
  <2> QED
    BY <1>2, <2>1, ConsumeStep DEF Queue!Next
<1>3. ASSUME ReturnEmpty
      PROVE  IInv' /\ [Queue!Next]_<<Contents, put, out>>
  BY <1>3, EmptyStep DEF Queue!Next
<1>4. ASSUME NEW length \in 0 .. Capacity + 1, Read(length)
      PROVE  IInv' /\ [Queue!Next]_<<Contents, put, out>>
  BY <1>2, <1>3, <1>4 DEF Read
<1>5. ASSUME NEW text \in Texts, ReadUntil(text)
      PROVE  IInv' /\ [Queue!Next]_<<Contents, put, out>>
  BY <1>2, <1>3, <1>5 DEF ReadUntil
<1>6. CASE Clear
  <2>1. IInv'
    BY <1>6, WrapBehind, RingAssumption DEF Clear, IInv, TypeOK, PositionsAgree, Index
  <2>2. Contents' = << >>
    BY <1>6 DEF Clear, Contents, Oldest
  <2> QED
    BY <1>6, <2>1, <2>2 DEF Clear, Queue!Next, Queue!Clear
<1>7. CASE ResetStatistics
  <2>1. /\ buffer' = buffer /\ readPos' = readPos /\ writePos' = writePos /\ used' = used
        /\ readStats' = <<0, 0>> /\ writeStats' = <<0, 0>> /\ put' = << >> /\ out' = << >>
    BY <1>7 DEF ResetStatistics, ring, readStats, writeStats
  <2> QED
    BY <2>1 DEF IInv, TypeOK, PositionsAgree, Contents, Oldest, Queue!Next, Queue!Refuse
<1>8. CASE UNCHANGED vars
  BY <1>8 DEF vars, readStats, writeStats, IInv, TypeOK, PositionsAgree, Contents, Oldest
<1> QED
  BY <1>1, <1>4, <1>5, <1>6, <1>7, <1>8 DEF Next

-----------------------------------------------------------------------------

(* Type correctness of the ring, for every capacity and alphabet. *)
THEOREM RingTypeOK == Spec => []TypeOK
<1>1. IInv /\ [Next]_vars => IInv'
  BY NextInv
<1>2. IInv => TypeOK
  BY DEF IInv
<1> QED
  BY InitInv, <1>1, <1>2, PTL DEF Spec

(* readPos, writePos and used, each updated by other methods of            *)
(* ringBuffer.cpp, agree in every reachable state.                         *)
THEOREM RingPositionsAgree == Spec => []PositionsAgree
<1>1. IInv /\ [Next]_vars => IInv'
  BY NextInv
<1>2. IInv => PositionsAgree
  BY DEF IInv
<1> QED
  BY InitInv, <1>1, <1>2, PTL DEF Spec

(* The ring implements the byte queue: what its callers get is the written *)
(* bytes in order, none lost, repeated or split.                           *)
THEOREM RingImplementsQueue == Spec => ImplementsQueue
<1>1. Init => Queue!Init
  BY DEF Init, Contents, Oldest, Queue!Init
<1>2. IInv /\ [Next]_vars => IInv' /\ [Queue!Next]_<<Contents, put, out>>
  BY NextInv
<1> QED
  BY InitInv, <1>1, <1>2, PTL DEF Spec, ImplementsQueue, Queue!Spec

(***************************************************************************)
(* Induction over the numbers, with a set for the predicate.               *)
(***************************************************************************)

LEMMA SetInduction ==
  ASSUME NEW S, 0 \in S, \A n \in Nat : n \in S => n + 1 \in S
  PROVE  \A n \in Nat : n \in S
<1> DEFINE T == Nat \ S
<1> SUFFICES ASSUME T # {} PROVE FALSE
  OBVIOUS
<1>1. T \subseteq Nat
  OBVIOUS
<1>2. PICK x \in T : \A y \in T : ~(<<y, x>> \in OpToRel(<, Nat))
  <2> HIDE DEF T
  <2> QED BY <1>1, NatLessThanWellFounded, WFMin
<1>3. x \in Nat /\ x # 0 /\ x - 1 \in Nat /\ x - 1 < x
  OBVIOUS
<1>4. <<x - 1, x>> \in OpToRel(<, Nat)
  BY <1>3 DEF OpToRel
<1>5. x - 1 \in T
  BY <1>3
<1> QED BY <1>2, <1>4, <1>5

(* What holds of a number whenever it holds of all below. *)
LEMMA StrongInduction ==
  ASSUME NEW S, \A n \in Nat : (\A m \in 0 .. n - 1 : m \in S) => n \in S
  PROVE  \A n \in Nat : n \in S
<1> DEFINE Below == {n \in Nat : \A m \in 0 .. n - 1 : m \in S}
<1>1. 0 \in Below
  OBVIOUS
<1>2. ASSUME NEW n \in Nat, n \in Below PROVE n + 1 \in Below
  <2>1. n \in S
    BY <1>2
  <2>2. ASSUME NEW m \in 0 .. (n + 1) - 1 PROVE m \in S
    <3>1. m \in 0 .. n - 1 \/ m = n
      OBVIOUS
    <3> QED BY <1>2, <2>1, <3>1
  <2> QED BY <2>2
<1> HIDE DEF Below
<1>3. \A n \in Nat : n \in Below
  BY <1>1, <1>2, SetInduction
<1> QED BY <1>3 DEF Below

(***************************************************************************)
(* The fall.  It is defined for every match, as long as the table of what  *)
(* is matched says a shorter match for each.                               *)
(***************************************************************************)

Shortens(prefix, k) == \A m \in 1 .. k : prefix[m - 1] \in 0 .. m - 1

IsFall(f, text, prefix, k, value) ==
  f = [m \in 0 .. k |-> IF m > 0 /\ value # text[m + 1] THEN f[prefix[m - 1]] ELSE m]
Fall(text, prefix, k, value) == CHOOSE f : IsFall(f, text, prefix, k, value)

LEMMA FallExists ==
  ASSUME NEW text, NEW prefix, NEW k \in Nat, Shortens(prefix, k), NEW value
  PROVE  \E f : IsFall(f, text, prefix, k, value)
<1> DEFINE S == {n \in Nat : n <= k => \E f : IsFall(f, text, prefix, n, value)}
<1>1. 0 \in S
  <2> DEFINE f == [m \in 0 .. 0 |-> 0]
  <2>1. f = [m \in 0 .. 0 |-> IF m > 0 /\ value # text[m + 1] THEN f[prefix[m - 1]] ELSE m]
    OBVIOUS
  <2> QED BY <2>1 DEF IsFall
<1>2. ASSUME NEW n \in Nat, n \in S PROVE n + 1 \in S
  <2> SUFFICES ASSUME n + 1 <= k PROVE \E f : IsFall(f, text, prefix, n + 1, value)
    OBVIOUS
  <2>1. PICK f : IsFall(f, text, prefix, n, value)
    BY <1>2
  <2> DEFINE Rhs(h, m) == IF m > 0 /\ value # text[m + 1] THEN h[prefix[m - 1]] ELSE m
  <2> DEFINE g == [m \in 0 .. n + 1 |-> Rhs(f, m)]
  <2>2. \A m \in 0 .. n : g[m] = f[m]
    BY <2>1 DEF IsFall
  <2>3. ASSUME NEW m \in 0 .. n + 1 PROVE Rhs(f, m) = Rhs(g, m)
    <3>1. CASE m > 0
      <4>1. prefix[m - 1] \in 0 .. n
        BY <3>1 DEF Shortens
      <4> QED BY <2>2, <4>1
    <3> QED BY <3>1
  <2>4. g = [m \in 0 .. n + 1 |-> Rhs(g, m)]
    BY <2>3
  <2> QED BY <2>4 DEF IsFall
<1> HIDE DEF S
<1>3. k \in S
  BY <1>1, <1>2, SetInduction
<1> QED BY <1>3 DEF S

LEMMA FallIs ==
  ASSUME NEW text, NEW prefix, NEW k \in Nat, Shortens(prefix, k), NEW value
  PROVE  IsFall(Fall(text, prefix, k, value), text, prefix, k, value)
<1>1. PICK f : IsFall(f, text, prefix, k, value)
  BY FallExists
<1> QED BY <1>1 DEF Fall

LEMMA AdvancedByFall ==
  ASSUME NEW text, NEW prefix, NEW k \in Nat, NEW value
  PROVE  Advanced(text, prefix, k, value) =
           LET fall == Fall(text, prefix, k, value)
           IN  IF value = text[fall[k] + 1] THEN fall[k] + 1 ELSE fall[k]
BY DEF Advanced, Fall, IsFall

(***************************************************************************)
(* The text up to q ends the first n of the bytes.  Of a text itself this  *)
(* says that q is a border of its first n.                                 *)
(***************************************************************************)

Ends(text, bytes, n, q) == q \in 0 .. n /\ \A j \in 1 .. q : text[j] = bytes[n - q + j]

LEMMA EndsOfEnds ==
  ASSUME NEW text, NEW bytes, NEW n \in Nat, NEW p \in 0 .. n, NEW q,
         Ends(text, bytes, n, p), Ends(text, text, p, q)
  PROVE  Ends(text, bytes, n, q)
<1>1. q \in 0 .. p
  BY DEF Ends
<1>2. ASSUME NEW j \in 1 .. q PROVE text[j] = bytes[n - q + j]
  <2>1. p - q + j \in 1 .. p /\ n - p + (p - q + j) = n - q + j
    BY <1>1
  <2>2. text[j] = text[p - q + j]
    BY DEF Ends
  <2>3. text[p - q + j] = bytes[n - p + (p - q + j)]
    BY <2>1 DEF Ends
  <2> QED BY <2>1, <2>2, <2>3
<1> QED BY <1>1, <1>2 DEF Ends

LEMMA EndsBelow ==
  ASSUME NEW text, NEW bytes, NEW n \in Nat, NEW p \in 0 .. n, NEW q \in 0 .. p,
         Ends(text, bytes, n, p), Ends(text, bytes, n, q)
  PROVE  Ends(text, text, p, q)
<1>1. ASSUME NEW j \in 1 .. q PROVE text[j] = text[p - q + j]
  <2>1. p - q + j \in 1 .. p /\ n - p + (p - q + j) = n - q + j
    OBVIOUS
  <2>2. text[j] = bytes[n - q + j]
    BY DEF Ends
  <2>3. text[p - q + j] = bytes[n - p + (p - q + j)]
    BY <2>1 DEF Ends
  <2> QED BY <2>1, <2>2, <2>3
<1> QED BY <1>1 DEF Ends

LEMMA EndsGrows ==
  ASSUME NEW text, NEW bytes, NEW n \in Nat, NEW q \in 1 .. n + 1
  PROVE  Ends(text, bytes, n + 1, q) <=> Ends(text, bytes, n, q - 1) /\ text[q] = bytes[n + 1]
<1>1. /\ q \in Nat /\ q - 1 \in 0 .. n /\ q \in 0 .. n + 1 /\ (n + 1) - q + q = n + 1
      /\ q \in 1 .. q
  OBVIOUS
<1>a. \A j \in 1 .. q : j \in 1 .. q - 1 \/ j = q
  BY <1>1
<1>b. \A j \in 1 .. q - 1 : j \in 1 .. q /\ n - (q - 1) + j = (n + 1) - q + j
  BY <1>1
<1>2. ASSUME Ends(text, bytes, n + 1, q)
      PROVE  Ends(text, bytes, n, q - 1) /\ text[q] = bytes[n + 1]
  BY <1>1, <1>b, <1>2 DEF Ends
<1>3. ASSUME Ends(text, bytes, n, q - 1), text[q] = bytes[n + 1]
      PROVE  Ends(text, bytes, n + 1, q)
  <2>1. ASSUME NEW j \in 1 .. q PROVE text[j] = bytes[(n + 1) - q + j]
    BY <1>1, <1>a, <1>b, <1>3 DEF Ends
  <2> QED BY <1>1, <2>1 DEF Ends
<1> QED BY <1>2, <1>3

(* The table has the longest border of each start of the text. *)
TableOf(prefix, text, k) ==
  \A m \in 1 .. k : /\ prefix[m - 1] \in 0 .. m - 1
                    /\ Ends(text, text, m, prefix[m - 1])
                    /\ \A b \in 0 .. m - 1 : Ends(text, text, m, b) => b <= prefix[m - 1]

(* The fall ends at the longest border that the value goes on from. *)
FallsTo(q, text, m, value) ==
  /\ q \in 0 .. m /\ Ends(text, text, m, q)
  /\ q = 0 \/ value = text[q + 1]
  /\ \A b \in 0 .. m : Ends(text, text, m, b) /\ value = text[b + 1] => b <= q

LEMMA FallLongest ==
  ASSUME NEW text, NEW prefix, NEW k \in Nat, TableOf(prefix, text, k), NEW value
  PROVE  FallsTo(Fall(text, prefix, k, value)[k], text, k, value)
<1> DEFINE fall == Fall(text, prefix, k, value)
           S == {n \in Nat : n <= k => FallsTo(fall[n], text, n, value)}
<1>1. Shortens(prefix, k)
  BY DEF Shortens, TableOf
<1>a. IsFall(fall, text, prefix, k, value)
  BY <1>1, FallIs
<1> HIDE DEF fall
<1>2. \A m \in 0 .. k :
        fall[m] = IF m > 0 /\ value # text[m + 1] THEN fall[prefix[m - 1]] ELSE m
  BY <1>a DEF IsFall
<1>3. ASSUME NEW n \in Nat, \A m \in 0 .. n - 1 : m \in S PROVE n \in S
  <2> SUFFICES ASSUME n <= k PROVE FallsTo(fall[n], text, n, value)
    OBVIOUS
  <2>1. Ends(text, text, n, n)
    BY DEF Ends
  <2>2. CASE ~(n > 0 /\ value # text[n + 1])
    <3>1. fall[n] = n
      BY <1>2, <2>2
    <3> QED BY <2>1, <2>2, <3>1 DEF FallsTo
  <2>3. CASE n > 0 /\ value # text[n + 1]
    <3>1. PICK p \in 0 .. n - 1 : p = prefix[n - 1]
      BY <2>3 DEF TableOf
    <3>2. Ends(text, text, n, p) /\ \A b \in 0 .. n - 1 : Ends(text, text, n, b) => b <= p
      BY <2>3, <3>1 DEF TableOf
    <3>3. fall[n] = fall[p]
      BY <1>2, <2>3, <3>1
    <3>4. FallsTo(fall[p], text, p, value)
      BY <1>3
    <3>5. fall[p] \in 0 .. p /\ Ends(text, text, p, fall[p]) /\ (fall[p] = 0 \/ value = text[fall[p] + 1])
      BY <3>4 DEF FallsTo
    <3>6. Ends(text, text, n, fall[p])
      BY <3>2, <3>5, EndsOfEnds
    <3>7. ASSUME NEW b \in 0 .. n, Ends(text, text, n, b), value = text[b + 1] PROVE b <= fall[p]
      <4>1. b \in 0 .. n - 1
        BY <2>3, <3>7
      <4>2. b \in 0 .. p
        BY <3>2, <3>7, <4>1
      <4>3. Ends(text, text, p, b)
        BY <3>2, <3>7, <4>2, EndsBelow
      <4> QED BY <3>4, <3>7, <4>2, <4>3 DEF FallsTo
    <3>8. fall[p] \in 0 .. n
      BY <3>5
    <3> QED BY <3>3, <3>5, <3>6, <3>7, <3>8 DEF FallsTo
  <2> QED BY <2>2, <2>3
<1> HIDE DEF S
<1>4. k \in S
  BY <1>3, StrongInduction
<1> QED BY <1>4 DEF S, fall

(* A match grows to the longest one that the value ends. *)
AdvancesTo(r, text, k, value) ==
  /\ r \in 0 .. k + 1
  /\ r > 0 => Ends(text, text, k, r - 1) /\ value = text[r]
  /\ \A b \in 1 .. k + 1 : Ends(text, text, k, b - 1) /\ value = text[b] => b <= r

LEMMA AdvancedLongest ==
  ASSUME NEW text, NEW prefix, NEW k \in Nat, TableOf(prefix, text, k), NEW value
  PROVE  AdvancesTo(Advanced(text, prefix, k, value), text, k, value)
<1>1. PICK q : q = Fall(text, prefix, k, value)[k]
  OBVIOUS
<1>2. FallsTo(q, text, k, value)
  BY <1>1, FallLongest
<1>3. PICK r : r = Advanced(text, prefix, k, value)
  OBVIOUS
<1>4. r = IF value = text[q + 1] THEN q + 1 ELSE q
  BY <1>1, <1>3, AdvancedByFall
<1>5. q \in 0 .. k
  BY <1>2 DEF FallsTo
<1>6. r \in 0 .. k + 1
  BY <1>4, <1>5
<1>7. r > 0 => Ends(text, text, k, r - 1) /\ value = text[r]
  <2>1. r > 0 => r = q + 1 /\ value = text[q + 1] /\ r - 1 = q
    BY <1>2, <1>4, <1>5 DEF FallsTo
  <2> QED BY <1>2, <2>1 DEF FallsTo
<1>8. ASSUME NEW b \in 1 .. k + 1, Ends(text, text, k, b - 1), value = text[b] PROVE b <= r
  <2>1. b - 1 \in 0 .. k /\ (b - 1) + 1 = b
    OBVIOUS
  <2>2. b - 1 <= q
    BY <1>2, <1>8, <2>1 DEF FallsTo
  <2>3. CASE r = q + 1
    BY <1>5, <2>2, <2>3
  <2>4. CASE r = q /\ value # text[q + 1]
    <3>1. q = 0
      BY <1>2, <2>4 DEF FallsTo
    <3>2. b = 1
      BY <2>2, <3>1
    <3> QED BY <1>8, <2>4, <3>1, <3>2
  <2> QED BY <1>4, <2>3, <2>4
<1> QED BY <1>3, <1>6, <1>7, <1>8 DEF AdvancesTo

(***************************************************************************)
(* The table.                                                              *)
(***************************************************************************)

IsTable(h, text, n) ==
  h = [i \in 0 .. n - 1 |-> IF i = 0 THEN 0 ELSE Advanced(text, h, h[i - 1], text[i + 1])]

(* What is advanced to depends on what the table says of shorter matches.  *)
LEMMA AdvancedSame ==
  ASSUME NEW text, NEW g, NEW h, NEW k \in Nat, \A m \in 1 .. k : g[m - 1] = h[m - 1], NEW value
  PROVE  Advanced(text, g, k, value) = Advanced(text, h, k, value)
<1>1. \A f : IsFall(f, text, g, k, value) <=> IsFall(f, text, h, k, value)
  BY DEF IsFall
<1>2. Fall(text, g, k, value) = Fall(text, h, k, value)
  BY <1>1 DEF Fall
<1> QED BY <1>2, AdvancedByFall

LEMMA TableLongest ==
  ASSUME NEW text, NEW n \in Nat, NEW h, IsTable(h, text, n)
  PROVE  TableOf(h, text, n)
<1> DEFINE S == {m \in Nat : m <= n => TableOf(h, text, m)}
<1>1. 0 \in S
  BY DEF TableOf
<1>2. ASSUME NEW m \in Nat, m \in S PROVE m + 1 \in S
  <2> SUFFICES ASSUME m + 1 <= n PROVE TableOf(h, text, m + 1)
    OBVIOUS
  <2>1. TableOf(h, text, m)
    BY <1>2
  <2>2. /\ h[m] \in 0 .. m
        /\ Ends(text, text, m + 1, h[m])
        /\ \A b \in 0 .. m : Ends(text, text, m + 1, b) => b <= h[m]
    <3>1. h[m] = IF m = 0 THEN 0 ELSE Advanced(text, h, h[m - 1], text[m + 1])
      BY DEF IsTable
    <3>2. CASE m = 0
      BY <3>1, <3>2 DEF Ends
    <3>3. CASE m > 0
      <4>1. PICK k \in 0 .. m - 1 : k = h[m - 1]
        BY <2>1, <3>3 DEF TableOf
      <4>2. Ends(text, text, m, k) /\ \A b \in 0 .. m - 1 : Ends(text, text, m, b) => b <= k
        BY <2>1, <3>3, <4>1 DEF TableOf
      <4>3. TableOf(h, text, k)
        BY <2>1, <4>1 DEF TableOf
      <4>4. AdvancesTo(h[m], text, k, text[m + 1])
        BY <3>1, <3>3, <4>1, <4>3, AdvancedLongest
      <4>5. h[m] \in 0 .. k + 1 /\ h[m] \in 0 .. m
        BY <4>4 DEF AdvancesTo
      <4>6. Ends(text, text, m + 1, h[m])
        <5>1. CASE h[m] = 0
          BY <5>1 DEF Ends
        <5>2. CASE h[m] > 0
          <6>1. h[m] - 1 \in 0 .. k /\ h[m] \in 1 .. m + 1
            BY <4>5, <5>2
          <6>2. Ends(text, text, k, h[m] - 1) /\ text[m + 1] = text[h[m]]
            BY <4>4, <5>2 DEF AdvancesTo
          <6>3. Ends(text, text, m, h[m] - 1)
            BY <4>2, <6>2, EndsOfEnds
          <6> QED BY <6>1, <6>2, <6>3, EndsGrows
        <5> QED BY <4>5, <5>1, <5>2
      <4>7. ASSUME NEW b \in 0 .. m, Ends(text, text, m + 1, b) PROVE b <= h[m]
        <5>1. CASE b = 0
          BY <4>5, <5>1
        <5>2. CASE b > 0
          <6>1. b \in 1 .. m + 1 /\ b - 1 \in 0 .. m - 1
            BY <5>2
          <6>2. Ends(text, text, m, b - 1) /\ text[b] = text[m + 1]
            BY <4>7, <6>1, EndsGrows
          <6>3. b - 1 \in 0 .. k /\ b \in 1 .. k + 1
            BY <4>2, <6>1, <6>2
          <6>4. Ends(text, text, k, b - 1)
            BY <4>2, <6>2, <6>3, EndsBelow
          <6> QED BY <4>4, <6>2, <6>3, <6>4 DEF AdvancesTo
        <5> QED BY <5>1, <5>2
      <4> QED BY <4>5, <4>6, <4>7
    <3> QED BY <3>2, <3>3
  <2>3. ASSUME NEW i \in 1 .. m + 1
        PROVE  /\ h[i - 1] \in 0 .. i - 1
               /\ Ends(text, text, i, h[i - 1])
               /\ \A b \in 0 .. i - 1 : Ends(text, text, i, b) => b <= h[i - 1]
    <3>1. CASE i \in 1 .. m
      BY <2>1, <3>1 DEF TableOf
    <3>2. CASE i = m + 1
      <4>1. i - 1 = m
        BY <3>2
      <4> QED BY <2>2, <3>2, <4>1
    <3> QED BY <3>1, <3>2
  <2> QED BY <2>3 DEF TableOf
<1> HIDE DEF S
<1>3. n \in S
  BY <1>1, <1>2, SetInduction
<1> QED BY <1>3 DEF S

LEMMA TableExists ==
  ASSUME NEW text, NEW size \in Nat
  PROVE  \E h : IsTable(h, text, size)
<1> DEFINE S == {n \in Nat : \E h : IsTable(h, text, n)}
<1>1. 0 \in S
  <2> DEFINE h == [i \in 0 .. 0 - 1 |-> 0]
  <2>1. h = [i \in 0 .. 0 - 1 |-> IF i = 0 THEN 0 ELSE Advanced(text, h, h[i - 1], text[i + 1])]
    OBVIOUS
  <2> QED BY <2>1 DEF IsTable
<1>2. ASSUME NEW n \in Nat, n \in S PROVE n + 1 \in S
  <2>1. PICK h : IsTable(h, text, n)
    BY <1>2
  <2>a. PICK D : D = 0 .. (n + 1) - 1
    OBVIOUS
  <2> DEFINE Rhs(f, i) == IF i = 0 THEN 0 ELSE Advanced(text, f, f[i - 1], text[i + 1])
             g == [i \in D |-> Rhs(h, i)]
  <2>2. \A i \in 0 .. n - 1 : g[i] = h[i]
    BY <2>1, <2>a DEF IsTable
  <2>3. TableOf(h, text, n)
    BY <2>1, TableLongest
  <2>4. ASSUME NEW i \in D PROVE Rhs(h, i) = Rhs(g, i)
    <3>1. CASE i > 0
      <4> HIDE DEF g
      <4>0. i - 1 \in 0 .. n - 1 /\ i \in 1 .. n
        BY <2>a, <3>1
      <4>1. g[i - 1] = h[i - 1] /\ h[i - 1] \in 0 .. i - 1
        BY <2>2, <2>3, <4>0 DEF TableOf
      <4>2. \A m \in 1 .. h[i - 1] : h[m - 1] = g[m - 1]
        BY <2>2, <4>0, <4>1
      <4>3. Advanced(text, h, h[i - 1], text[i + 1]) = Advanced(text, g, h[i - 1], text[i + 1])
        BY <4>1, <4>2, AdvancedSame
      <4> QED BY <4>1, <4>3
    <3>2. CASE i = 0
      BY <3>2
    <3> QED BY <2>a, <3>1, <3>2
  <2>5. g = [i \in D |-> Rhs(g, i)]
    <3>1. g = [i \in D |-> Rhs(h, i)]
      OBVIOUS
    <3> HIDE DEF g, Rhs
    <3> QED BY <2>4, <3>1
  <2> HIDE DEF g
  <2>6. IsTable(g, text, n + 1)
    BY <2>5, <2>a DEF IsTable
  <2> QED BY <2>6
<1> HIDE DEF S
<1>3. size \in S
  BY <1>1, <1>2, SetInduction
<1> QED BY <1>3 DEF S

LEMMA PrefixTableLongest ==
  ASSUME NEW text, Len(text) \in Nat
  PROVE  TableOf(PrefixTable(text), text, Len(text))
<1>1. PICK h : IsTable(h, text, Len(text))
  BY TableExists
<1>2. PrefixTable(text) = CHOOSE g : IsTable(g, text, Len(text))
  BY DEF PrefixTable, IsTable
<1>3. IsTable(PrefixTable(text), text, Len(text))
  BY <1>1, <1>2
<1> QED BY <1>3, TableLongest

(***************************************************************************)
(* The search.                                                             *)
(***************************************************************************)

IsMatched(h, text, prefix) ==
  h = [n \in 0 .. used |-> IF n = 0 THEN 0
                           ELSE IF h[n - 1] = Len(text) THEN Len(text)
                           ELSE Advanced(text, prefix, h[n - 1], Oldest(n))]

LEMMA MatchedIs ==
  ASSUME NEW text, NEW prefix, used \in Nat
  PROVE  IsMatched(Matched(text, prefix), text, prefix)
<1> DEFINE Rhs(f, n) == IF n = 0 THEN 0
                        ELSE IF f[n - 1] = Len(text) THEN Len(text)
                        ELSE Advanced(text, prefix, f[n - 1], Oldest(n))
           S == {n \in Nat : \E h : h = [i \in 0 .. n |-> Rhs(h, i)]}
<1>1. 0 \in S
  <2> DEFINE h == [i \in 0 .. 0 |-> 0]
  <2>1. h = [i \in 0 .. 0 |-> Rhs(h, i)]
    OBVIOUS
  <2> QED BY <2>1
<1>2. ASSUME NEW n \in Nat, n \in S PROVE n + 1 \in S
  <2>1. PICK h : h = [i \in 0 .. n |-> Rhs(h, i)]
    BY <1>2
  <2> DEFINE g == [i \in 0 .. n + 1 |-> Rhs(h, i)]
  <2>2. \A i \in 0 .. n : g[i] = h[i]
    <3> HIDE DEF Rhs
    <3> QED BY <2>1
  <2>3. ASSUME NEW i \in 0 .. n + 1 PROVE Rhs(h, i) = Rhs(g, i)
    <3>1. CASE i > 0
      <4>1. i - 1 \in 0 .. n
        BY <3>1
      <4>2. g[i - 1] = h[i - 1]
        BY <2>2, <4>1
      <4> HIDE DEF g
      <4> QED BY <4>2
    <3> QED BY <3>1
  <2>4. g = [i \in 0 .. n + 1 |-> Rhs(g, i)]
    <3>1. g = [i \in 0 .. n + 1 |-> Rhs(h, i)]
      OBVIOUS
    <3> HIDE DEF g, Rhs
    <3> QED BY <2>3, <3>1
  <2> HIDE DEF g, Rhs
  <2> QED BY <2>4
<1>3. used \in S
  <2> HIDE DEF S
  <2> QED BY <1>1, <1>2, SetInduction
<1>4. \E h : IsMatched(h, text, prefix)
  BY <1>3 DEF IsMatched
<1>5. Matched(text, prefix) = CHOOSE h : IsMatched(h, text, prefix)
  BY DEF Matched, IsMatched
<1> QED BY <1>4, <1>5

(* After each byte: the whole text, if it has been found, or else the most *)
(* of it that could go on.                                                 *)
SearchedTo(q, text, n) ==
  /\ q = Len(text) <=> \E m \in 1 .. n : Ends(text, Contents, m, Len(text))
  /\ q # Len(text) => /\ q \in 0 .. Len(text) - 1 /\ Ends(text, Contents, n, q)
                      /\ \A b \in 0 .. Len(text) : Ends(text, Contents, n, b) => b <= q

LEMMA MatchedSearches ==
  ASSUME used \in Nat, NEW text, Len(text) \in Nat \ {0}
  PROVE  \A n \in 0 .. used : SearchedTo(Matched(text, PrefixTable(text))[n], text, n)
<1> DEFINE prefix == PrefixTable(text)
           h == Matched(text, prefix)
           S == {n \in Nat : n <= used => SearchedTo(h[n], text, n)}
<1>a. TableOf(prefix, text, Len(text))
  BY PrefixTableLongest
<1>b. IsMatched(h, text, prefix)
  BY MatchedIs
<1>c. PICK size \in Nat \ {0} : size = Len(text)
  OBVIOUS
<1> HIDE DEF prefix, h
<1>1. 0 \in S
  <2>1. h[0] = 0
    BY <1>b DEF IsMatched
  <2>2. Ends(text, Contents, 0, 0) /\ \A b : Ends(text, Contents, 0, b) => b <= 0
    BY DEF Ends
  <2> QED BY <1>c, <2>1, <2>2 DEF SearchedTo
<1>2. ASSUME NEW n \in Nat, n \in S PROVE n + 1 \in S
  <2> SUFFICES ASSUME n + 1 <= used PROVE SearchedTo(h[n + 1], text, n + 1)
    OBVIOUS
  <2>1. SearchedTo(h[n], text, n)
    BY <1>2
  <2>2. h[n + 1] = IF h[n] = size THEN size ELSE Advanced(text, prefix, h[n], Oldest(n + 1))
    BY <1>b, <1>c DEF IsMatched
  <2>3. Contents[n + 1] = Oldest(n + 1)
    BY DEF Contents
  <2>4. CASE h[n] = size
    <3>1. PICK m \in 1 .. n : Ends(text, Contents, m, size)
      BY <1>c, <2>1, <2>4 DEF SearchedTo
    <3>2. m \in 1 .. n + 1 /\ h[n + 1] = size
      BY <2>2, <2>4
    <3> QED BY <1>c, <3>1, <3>2 DEF SearchedTo
  <2>5. CASE h[n] # size
    <3>1. PICK k \in 0 .. size - 1 : k = h[n]
      BY <1>c, <2>1, <2>5 DEF SearchedTo
    <3>2. /\ Ends(text, Contents, n, k)
          /\ \A b \in 0 .. size : Ends(text, Contents, n, b) => b <= k
          /\ \A m \in 1 .. n : ~Ends(text, Contents, m, size)
      BY <1>c, <2>1, <2>5, <3>1 DEF SearchedTo
    <3>3. TableOf(prefix, text, k)
      BY <1>a, <1>c, <3>1 DEF TableOf
    <3>4. PICK r : r = h[n + 1]
      OBVIOUS
    <3>5. AdvancesTo(r, text, k, Contents[n + 1])
      BY <2>2, <2>3, <2>5, <3>1, <3>3, <3>4, AdvancedLongest
    <3>6. k \in 0 .. n
      BY <3>2 DEF Ends
    <3>7. r \in 0 .. k + 1 /\ r \in 0 .. size
      BY <3>1, <3>5 DEF AdvancesTo
    <3>8. Ends(text, Contents, n + 1, r)
      <4>1. CASE r = 0
        BY <4>1 DEF Ends
      <4>2. CASE r > 0
        <5>1. r \in 1 .. n + 1 /\ r - 1 \in 0 .. k
          BY <3>6, <3>7, <4>2
        <5>2. Ends(text, text, k, r - 1) /\ Contents[n + 1] = text[r]
          BY <3>5, <4>2 DEF AdvancesTo
        <5>3. Ends(text, Contents, n, r - 1)
          BY <3>2, <3>6, <5>2, EndsOfEnds
        <5> QED BY <5>1, <5>2, <5>3, EndsGrows
      <4> QED BY <3>7, <4>1, <4>2
    <3>9. ASSUME NEW b \in 0 .. size, Ends(text, Contents, n + 1, b) PROVE b <= r
      <4>1. CASE b = 0
        BY <3>7, <4>1
      <4>2. CASE b > 0
        <5>0. b \in 0 .. n + 1
          BY <3>9 DEF Ends
        <5>1. b \in 1 .. n + 1 /\ b - 1 \in 0 .. size
          BY <4>2, <5>0
        <5>a. Ends(text, Contents, n + 1, b)
                <=> Ends(text, Contents, n, b - 1) /\ text[b] = Contents[n + 1]
          BY ONLY <5>1, n \in Nat, EndsGrows
        <5>2. Ends(text, Contents, n, b - 1) /\ text[b] = Contents[n + 1]
          BY <3>9, <5>a
        <5>3. b - 1 \in 0 .. k /\ b \in 1 .. k + 1
          BY <3>2, <5>1, <5>2
        <5>4. Ends(text, text, k, b - 1)
          BY <3>2, <3>6, <5>2, <5>3, EndsBelow
        <5> QED BY <3>5, <5>2, <5>3, <5>4 DEF AdvancesTo
      <4> QED BY <4>1, <4>2
    <3>10. r = size <=> \E m \in 1 .. n + 1 : Ends(text, Contents, m, size)
      <4>1. ASSUME NEW m \in 1 .. n + 1, Ends(text, Contents, m, size) PROVE r = size
        <5>1. m = n + 1
          BY <3>2, <4>1
        <5>2. size <= r
          BY <3>9, <4>1, <5>1
        <5> QED BY <3>7, <5>2
      <4>2. n + 1 \in 1 .. n + 1
        OBVIOUS
      <4> QED BY <3>8, <4>1, <4>2
    <3>11. r # size => r \in 0 .. size - 1
      BY <3>7
    <3> QED BY <1>c, <3>4, <3>8, <3>9, <3>10, <3>11 DEF SearchedTo
  <2> QED BY <2>4, <2>5
<1>3. \A n \in Nat : n \in S
  <2> HIDE DEF S
  <2> QED BY <1>1, <1>2, SetInduction
<1> QED BY <1>3 DEF prefix, h

LEMMA OccursIsEnds ==
  ASSUME TypeOK, NEW text \in Seq(Byte), NEW n \in 1 .. used
  PROVE  OccursAt(text, n) <=> Ends(text, Contents, n, Len(text))
<1>1. Contents \in Seq(Byte) /\ Len(Contents) = used /\ used \in Nat
  BY ContentsType DEF TypeOK
<1>2. PICK size \in Nat : size = Len(text)
  OBVIOUS
<1>3. CASE n >= size
  <2>1. \A i \in n - size + 1 .. n : Contents[i] \in Byte
    BY <1>1, <1>3
  <2>2. PICK piece : piece = SubSeq(Contents, n - size + 1, n)
    OBVIOUS
  <2>3. /\ piece \in Seq(Byte)
        /\ Len(piece) = IF n - size + 1 <= n THEN n - (n - size + 1) + 1 ELSE 0
        /\ \A j \in 1 .. n - (n - size + 1) + 1 : piece[j] = Contents[(n - size + 1) + j - 1]
    BY <2>1, <2>2, SubSeqProperties
  <2>4. Len(piece) = size /\ \A j \in 1 .. size : piece[j] = Contents[n - size + j]
    <3>1. n - (n - size + 1) + 1 = size /\ (n - size + 1 <= n \/ size = 0)
      OBVIOUS
    <3>2. \A j \in 1 .. size : (n - size + 1) + j - 1 = n - size + j
      OBVIOUS
    <3> QED BY <2>3, <3>1, <3>2
  <2>5. piece = text <=> \A j \in 1 .. size : piece[j] = text[j]
    BY <1>2, <2>3, <2>4, SeqEqual
  <2>6. size \in 0 .. n
    BY <1>3
  <2> QED BY <1>2, <1>3, <2>2, <2>4, <2>5, <2>6 DEF OccursAt, Ends
<1>4. CASE ~(n >= size)
  BY <1>2, <1>4 DEF OccursAt, Ends
<1> QED BY <1>3, <1>4

(* Of numbers there is a least one. *)
LEMMA LeastOf ==
  ASSUME NEW S, S \subseteq Nat, S # {}
  PROVE  \E n \in S : \A m \in S : n <= m
<1> DEFINE T == {n \in Nat : n \notin S}
<1> SUFFICES ASSUME ~ \E n \in S : \A m \in S : n <= m PROVE FALSE
  OBVIOUS
<1>1. ASSUME NEW n \in Nat, \A m \in 0 .. n - 1 : m \in T PROVE n \in T
  <2> SUFFICES ASSUME n \in S PROVE FALSE
    OBVIOUS
  <2>1. PICK m \in S : ~(n <= m)
    OBVIOUS
  <2>2. m \in 0 .. n - 1
    BY <2>1
  <2> QED BY <1>1, <2>2
<1> HIDE DEF T
<1>2. \A n \in Nat : n \in T
  BY <1>1, StrongInduction
<1> QED BY <1>2 DEF T

LEMMA DistanceIsFirst ==
  ASSUME TypeOK, NEW text \in Seq(Byte)
  PROVE  Distance(text) = FirstEnd(text)
<1>1. used \in Nat /\ Len(text) \in Nat /\ (text = << >> <=> Len(text) = 0)
  BY DEF TypeOK
<1>2. CASE Len(text) = 0
  BY <1>1, <1>2 DEF Distance, FirstEnd
<1>3. CASE Len(text) > used
  <2>1. {n \in 1 .. used : OccursAt(text, n)} = {}
    BY <1>1, <1>3 DEF OccursAt
  <2> QED BY <1>3, <2>1 DEF Distance, FirstEnd
<1>4. CASE ~(Len(text) = 0 \/ Len(text) > used)
  <2> DEFINE h == Matched(text, PrefixTable(text))
             Found == {n \in 1 .. used : h[n] = Len(text)}
             Occurs == {n \in 1 .. used : OccursAt(text, n)}
  <2>1. \A n \in 1 .. used : h[n] = Len(text) <=> \E m \in 1 .. n : Ends(text, Contents, m, Len(text))
    <3>1. \A n \in 0 .. used : SearchedTo(h[n], text, n)
      BY <1>1, <1>4, MatchedSearches
    <3> HIDE DEF h
    <3> QED BY <3>1 DEF SearchedTo
  <2>2. Distance(text) = IF Found = {} THEN -1 ELSE CHOOSE n \in Found : \A m \in Found : n <= m
    BY <1>4 DEF Distance
  <2>3. FirstEnd(text) = IF Occurs = {} THEN -1 ELSE CHOOSE n \in Occurs : \A m \in Occurs : n <= m
    BY <1>1, <1>4 DEF FirstEnd
  <2> HIDE DEF h
  <2>4. \A n \in 1 .. used : n \in Found <=> \E m \in Occurs : m <= n
    BY <2>1, OccursIsEnds, <1>1
  <2>5. Found \subseteq Nat /\ Occurs \subseteq Found /\ Found \subseteq 1 .. used
    BY <2>4
  <2> HIDE DEF Found, Occurs
  <2>6. CASE Occurs = {}
    <3>1. Found = {}
      BY <2>4, <2>5, <2>6
    <3> QED BY <2>2, <2>3, <2>6, <3>1
  <2>7. CASE Occurs # {}
    <3>1. Found # {} /\ Occurs \subseteq Nat
      BY <2>5, <2>7
    <3>2. PICK n \in Occurs : \A m \in Occurs : n <= m
      BY <2>7, <3>1, LeastOf
    <3>3. n \in Found /\ \A m \in Found : n <= m
      <4>1. ASSUME NEW m \in Found PROVE n <= m
        <5>1. PICK k \in Occurs : k <= m
          BY <2>4, <2>5
        <5>2. n <= k /\ n \in Nat /\ k \in Nat /\ m \in Nat
          BY <2>5, <3>1, <3>2
        <5> QED BY <5>1, <5>2
      <4> QED BY <2>5, <4>1
    <3>4. \A k \in Found : (\A m \in Found : k <= m) => k = n
      BY <2>5, <3>3
    <3>5. \A k \in Occurs : (\A m \in Occurs : k <= m) => k = n
      BY <3>1, <3>2
    <3>6. (CHOOSE k \in Found : \A m \in Found : k <= m) = n
      BY <3>3, <3>4
    <3>7. (CHOOSE k \in Occurs : \A m \in Occurs : k <= m) = n
      BY <3>2, <3>5
    <3> QED BY <2>2, <2>3, <2>7, <3>1, <3>6, <3>7
  <2> QED BY <2>6, <2>7
<1> QED BY <1>2, <1>3, <1>4

(* readUntil's search finds the end of the first occurrence and nothing    *)
(* else, for every text, overlap itself however it may, and wherever the   *)
(* stored bytes wrap: distanceLocked.                                      *)
THEOREM RingDistanceFindsFirst == Spec => []DistanceFindsFirst
<1>1. TypeOK => DistanceFindsFirst
  BY DistanceIsFirst, RingAssumption DEF DistanceFindsFirst
<1> QED BY <1>1, RingTypeOK, PTL
=============================================================================
