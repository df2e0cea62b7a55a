---------------------------- MODULE ClientProofs ----------------------------
(***************************************************************************)
(* The two clients of servers of others.                                   *)
(*                                                                         *)
(* LanguageClient, for every choice of the methods that are asked for,     *)
(* with or without a server that dies, and however its output is cut into  *)
(* chunks: the types, the answers, which find the method they were asked   *)
(* for with, and the text the server has.                                  *)
(*                                                                         *)
(* McpClient, for every set of servers, titles and pages: the types, the   *)
(* tools, which are of enabled servers, and the offer, which is of known   *)
(* tools.                                                                  *)
(***************************************************************************)
EXTENDS McpClient, LanguageClient, SequenceTheorems, TLAPS

(***************************************************************************)
(* LanguageClient: the parts of its state.                                 *)
(***************************************************************************)

MainOK == /\ phase \in {"starting", "initializing", "running", "shutdown", "exit", "closed"}
          /\ session \in BOOLEAN /\ opened \in BOOLEAN /\ timer \in BOOLEAN
          /\ typed \in 0 .. MaxEdits /\ formats \in 0 .. MaxFormats
          /\ text \in Texts
MethodsOK == /\ nextId \in Nat
             /\ DOMAIN methods \subseteq 0 .. nextId - 1
             /\ \A i \in DOMAIN methods : methods[i] \in Methods
QueueOK == toServer \in Seq(Messages)
ArrivingOK == toClient \in Seq(Answers) /\ buffer \in Seq(Answers) /\ split \in BOOLEAN
ServerOK == /\ process \in {"none", "running", "ended"}
            /\ copy \in Texts /\ working \subseteq Requests

LEMMA TypesInParts == TypeOK <=> MainOK /\ MethodsOK /\ QueueOK /\ ArrivingOK /\ ServerOK
  BY DEF TypeOK, MainOK, MethodsOK, QueueOK, ArrivingOK, ServerOK

(***************************************************************************)
(* Where the requests are.  One that has been asked waits to be read by    *)
(* the server, is worked at by it, or its answer waits to be handled, and  *)
(* it is at one of these places only.                                      *)
(***************************************************************************)

(* What has been written by the server and is not handled: the buffer of   *)
(* the parser goes on in the pipe.                                         *)
Pending == buffer \o toClient

IsRequest(message) == message.kind = "request"

Queued == /\ \A i \in DOMAIN toServer : IsRequest(toServer[i]) =>
               /\ toServer[i].id \in DOMAIN methods
               /\ methods[toServer[i].id] = toServer[i].method
          /\ \A i, j \in DOMAIN toServer :
               /\ IsRequest(toServer[i]) /\ IsRequest(toServer[j])
               /\ toServer[i].id = toServer[j].id
               => i = j
Worked == /\ \A r \in working : r.id \in DOMAIN methods /\ methods[r.id] = r.method
          /\ \A r, s \in working : r.id = s.id => r = s
          /\ \A r \in working, i \in DOMAIN toServer :
               IsRequest(toServer[i]) => toServer[i].id # r.id
Replied == /\ \A i \in DOMAIN Pending : Pending[i].id \in DOMAIN methods
           /\ \A i, j \in DOMAIN Pending : Pending[i].id = Pending[j].id => i = j
           /\ \A i \in DOMAIN Pending :
                /\ \A r \in working : r.id # Pending[i].id
                /\ \A j \in DOMAIN toServer :
                     IsRequest(toServer[j]) => toServer[j].id # Pending[i].id
AllKnown == \A m \in DOMAIN methods :
               \/ \E i \in DOMAIN Pending : Pending[i].id = m
               \/ \E r \in working : r.id = m
               \/ \E i \in DOMAIN toServer : IsRequest(toServer[i]) /\ toServer[i].id = m

Traced == Queued /\ Worked /\ Replied /\ (process = "running" => AllKnown)

LEMMA PendingTypes ==
  ASSUME ArrivingOK
  PROVE  /\ Pending \in Seq(Answers) /\ Len(Pending) = Len(buffer) + Len(toClient)
         /\ Len(buffer) \in Nat /\ Len(toClient) \in Nat
         /\ \A i \in 1 .. Len(Pending) :
              Pending[i] = IF i <= Len(buffer) THEN buffer[i] ELSE toClient[i - Len(buffer)]
  BY ConcatProperties DEF ArrivingOK, Pending

LEMMA PendingIds ==
  ASSUME ArrivingOK
  PROVE  \A m : m \in Answered <=> \E i \in DOMAIN Pending : Pending[i].id = m
<1>1. \A i \in DOMAIN Pending : Pending[i].id \in Answered
  <2> TAKE i \in DOMAIN Pending
  <2>1. CASE i <= Len(buffer)
    BY <2>1, PendingTypes DEF Answered, ArrivingOK
  <2>2. CASE i > Len(buffer)
    <3>1. /\ i \in 1 .. Len(buffer) + Len(toClient)
          /\ Len(buffer) \in Nat /\ Len(toClient) \in Nat
      BY PendingTypes
    <3>2. i - Len(buffer) \in 1 .. Len(toClient) /\ ~(i <= Len(buffer))
      BY ONLY <2>2, <3>1
    <3>3. Pending[i] = toClient[i - Len(buffer)]
      BY <3>2, PendingTypes
    <3>4. i - Len(buffer) \in DOMAIN toClient
      BY <3>2 DEF ArrivingOK
    <3> QED BY <3>3, <3>4 DEF Answered
  <2> QED BY <2>1, <2>2, PendingTypes
<1>2. ASSUME NEW i \in DOMAIN buffer PROVE \E j \in DOMAIN Pending : Pending[j].id = buffer[i].id
  <2>1. i \in DOMAIN Pending /\ Pending[i] = buffer[i]
    BY PendingTypes DEF ArrivingOK
  <2> QED BY <2>1
<1>3. ASSUME NEW i \in DOMAIN toClient
      PROVE  \E j \in DOMAIN Pending : Pending[j].id = toClient[i].id
  <2>1. PICK j \in Nat : j = i + Len(buffer)
    BY PendingTypes DEF ArrivingOK
  <2>2. j \in 1 .. Len(Pending) /\ ~(j <= Len(buffer)) /\ j - Len(buffer) = i
    BY <2>1, PendingTypes DEF ArrivingOK
  <2>3. j \in DOMAIN Pending /\ Pending[j] = toClient[i]
    BY <2>2, PendingTypes
  <2> QED BY <2>3
<1> QED BY <1>1, <1>2, <1>3 DEF Answered

LEMMA TracedAnswersMatch ==
  ASSUME ArrivingOK, Traced
  PROVE  AnswersMatch
<1> DEFINE ids == {r.id : r \in Asked}
<1>1. \A m \in ids : \/ \E r \in working : r.id = m
                     \/ \E i \in DOMAIN toServer : IsRequest(toServer[i]) /\ toServer[i].id = m
  BY DEF Asked, IsRequest
<1>2. \A r \in Asked : r \in working \/ \E i \in DOMAIN toServer : IsRequest(toServer[i]) /\ toServer[i] = r
  BY DEF Asked, IsRequest
<1>3. \A r \in working : r.id \in ids
  BY DEF Asked
<1>4. \A i \in DOMAIN toServer : IsRequest(toServer[i]) => toServer[i].id \in ids
  BY DEF Asked, IsRequest
<1> HIDE DEF ids
<1>5. Answered \cap ids = {}
  BY <1>1, PendingIds DEF Traced, Replied
<1>6. Answered \subseteq DOMAIN methods
  BY PendingIds DEF Traced, Replied
<1>7. \A r \in Asked : r.id \in DOMAIN methods /\ methods[r.id] = r.method
  BY <1>2 DEF Traced, Queued, Worked
<1>8. ids \subseteq DOMAIN methods
  BY <1>1 DEF Traced, Queued, Worked
<1>9. process = "running" => DOMAIN methods = Answered \cup ids
  BY <1>3, <1>4, <1>6, <1>8, PendingIds DEF Traced, AllKnown
<1> QED BY <1>5, <1>6, <1>7, <1>9 DEF AnswersMatch, ids

(***************************************************************************)
(* Asking.                                                                 *)
(***************************************************************************)

ChangeMessages == [kind : {"change"}, text : Texts]

LEMMA MessageKinds ==
  /\ \A m \in Messages : IsRequest(m) => m \in Requests
  /\ \A m \in ChangeMessages : ~IsRequest(m) /\ m \in Messages
  /\ \A i \in Nat, m \in Methods : /\ Request(i, m) \in Messages /\ IsRequest(Request(i, m))
                                   /\ Request(i, m).id = i /\ Request(i, m).method = m
                                   /\ Request(i, m).kind # "change"
  BY DEF Messages, Requests, ChangeMessages, Request, IsRequest

(* What is written: changes, then a request for each of the methods.       *)
Written(notes, ms) == notes \o [n \in DOMAIN ms |-> Request(nextId + n - 1, ms[n])]

LEMMA WrittenTypes ==
  ASSUME MethodsOK, NEW notes \in Seq(ChangeMessages), NEW ms \in Seq(Methods)
  PROVE  /\ Written(notes, ms) \in Seq(Messages)
         /\ Len(Written(notes, ms)) = Len(notes) + Len(ms)
         /\ \A i \in 1 .. Len(notes) : Written(notes, ms)[i] = notes[i]
         /\ \A i \in 1 .. Len(ms) :
              Written(notes, ms)[Len(notes) + i] = Request(nextId + i - 1, ms[i])
<1> DEFINE asks == [n \in DOMAIN ms |-> Request(nextId + n - 1, ms[n])]
<1>0. Len(ms) \in Nat /\ DOMAIN ms = 1 .. Len(ms) /\ Len(notes) \in Nat
  OBVIOUS
<1>1. \A n \in 1 .. Len(ms) : nextId + n - 1 \in Nat /\ ms[n] \in Methods
  BY DEF MethodsOK
<1>2. \A n \in 1 .. Len(ms) : Request(nextId + n - 1, ms[n]) \in Messages
  BY <1>1, MessageKinds
<1>3. asks \in Seq(Messages) /\ Len(asks) = Len(ms)
  BY <1>0, <1>2
<1>4. \A n \in 1 .. Len(ms) : asks[n] = Request(nextId + n - 1, ms[n])
  BY <1>0
<1> HIDE DEF asks
<1>5. notes \in Seq(Messages)
  BY MessageKinds, SeqMonotonic
<1>6. /\ notes \o asks \in Seq(Messages) /\ Len(notes \o asks) = Len(notes) + Len(asks)
      /\ \A i \in 1 .. Len(notes) + Len(asks) :
           (notes \o asks)[i] = IF i <= Len(notes) THEN notes[i] ELSE asks[i - Len(notes)]
  BY <1>3, <1>5, ConcatProperties
<1>7. Written(notes, ms) = notes \o asks
  BY DEF Written, asks
<1>8. \A i \in 1 .. Len(notes) : (notes \o asks)[i] = notes[i]
  BY <1>0, <1>3, <1>6
<1>9. \A i \in 1 .. Len(ms) : (notes \o asks)[Len(notes) + i] = asks[i]
  BY <1>0, <1>3, <1>6
<1> QED BY <1>3, <1>4, <1>6, <1>7, <1>8, <1>9

(* Every message in the pipe was there before, is a change or is one of    *)
(* the requests; nothing moves.                                            *)
LEMMA AskWrites ==
  ASSUME MethodsOK, QueueOK, NEW notes \in Seq(ChangeMessages), NEW ms \in Seq(Methods),
         Ask(notes, ms), process' = "running"
  PROVE  /\ toServer' \in Seq(Messages)
         /\ Len(toServer') = Len(toServer) + Len(notes) + Len(ms)
         /\ \A i \in 1 .. Len(toServer) : toServer'[i] = toServer[i]
         /\ \A i \in 1 .. Len(notes) : toServer'[Len(toServer) + i] = notes[i]
         /\ \A i \in 1 .. Len(ms) :
              toServer'[Len(toServer) + Len(notes) + i] = Request(nextId + i - 1, ms[i])
<1> DEFINE new == Written(notes, ms)
<1>1. toServer' = toServer \o new
  BY DEF Ask, Write, Written
<1>2. /\ new \in Seq(Messages) /\ Len(new) = Len(notes) + Len(ms)
      /\ \A i \in 1 .. Len(notes) : new[i] = notes[i]
      /\ \A i \in 1 .. Len(ms) : new[Len(notes) + i] = Request(nextId + i - 1, ms[i])
  BY WrittenTypes
<1> HIDE DEF new
<1>3. Len(notes) \in Nat /\ Len(ms) \in Nat /\ Len(toServer) \in Nat
  BY DEF QueueOK
<1>4. new \in Seq(Messages) /\ toServer \in Seq(Messages)
  BY <1>2 DEF QueueOK
<1>5. /\ toServer \o new \in Seq(Messages) /\ Len(toServer \o new) = Len(toServer) + Len(new)
      /\ \A i \in 1 .. Len(toServer) + Len(new) :
           (toServer \o new)[i] = IF i <= Len(toServer) THEN toServer[i] ELSE new[i - Len(toServer)]
  BY ONLY <1>4, ConcatProperties
<1>6. /\ toServer' \in Seq(Messages) /\ Len(toServer') = Len(toServer) + Len(new)
      /\ \A i \in 1 .. Len(toServer) + Len(new) :
           toServer'[i] = IF i <= Len(toServer) THEN toServer[i] ELSE new[i - Len(toServer)]
  BY <1>1, <1>5
<1>7. \A i \in 1 .. Len(toServer) : toServer'[i] = toServer[i]
  BY <1>2, <1>3, <1>6
<1>a. \A j \in 1 .. Len(new) : toServer'[Len(toServer) + j] = new[j]
  <2> TAKE j \in 1 .. Len(new)
  <2>1. PICK i \in 1 .. Len(toServer) + Len(new) : i = Len(toServer) + j
    BY <1>2, <1>3
  <2>2. ~(i <= Len(toServer)) /\ i - Len(toServer) = j
    BY <1>3, <2>1
  <2> QED BY <1>6, <2>1, <2>2
<1>8. \A i \in 1 .. Len(notes) : toServer'[Len(toServer) + i] = notes[i]
  BY <1>2, <1>3, <1>a
<1>9. ASSUME NEW i \in 1 .. Len(ms)
      PROVE  toServer'[Len(toServer) + Len(notes) + i] = Request(nextId + i - 1, ms[i])
  <2>1. PICK j \in 1 .. Len(new) : j = Len(notes) + i
    BY <1>2, <1>3
  <2>2. toServer'[Len(toServer) + j] = new[j]
    BY <1>a
  <2>3. Len(toServer) + Len(notes) + i = Len(toServer) + j
    BY <1>3, <2>1
  <2> QED BY <1>2, <2>1, <2>2, <2>3
<1> QED BY <1>2, <1>3, <1>6, <1>7, <1>8, <1>9

(* A message of the pipe is an old one, or one that has been written.      *)
LEMMA AskPlaces ==
  ASSUME MethodsOK, QueueOK, NEW notes \in Seq(ChangeMessages), NEW ms \in Seq(Methods),
         Ask(notes, ms), process' = "running"
  PROVE  /\ toServer' \in Seq(Messages)
         /\ Len(toServer) \in Nat /\ Len(toServer) <= Len(toServer')
         /\ \A i \in 1 .. Len(toServer) : toServer'[i] = toServer[i]
         /\ \A i \in 1 .. Len(toServer') :
              i > Len(toServer) /\ IsRequest(toServer'[i]) =>
                \E k \in 1 .. Len(ms) : /\ i = Len(toServer) + Len(notes) + k
                                        /\ toServer'[i].id = nextId + k - 1
                                        /\ toServer'[i].method = ms[k]
         /\ \A k \in 1 .. Len(ms) :
              \E i \in 1 .. Len(toServer') : /\ IsRequest(toServer'[i])
                                             /\ toServer'[i].id = nextId + k - 1
<1>1. Len(notes) \in Nat /\ Len(ms) \in Nat /\ Len(toServer) \in Nat
  BY DEF QueueOK
<1>2. /\ toServer' \in Seq(Messages)
      /\ Len(toServer') = Len(toServer) + Len(notes) + Len(ms)
      /\ \A i \in 1 .. Len(toServer) : toServer'[i] = toServer[i]
      /\ \A i \in 1 .. Len(notes) : toServer'[Len(toServer) + i] = notes[i]
      /\ \A i \in 1 .. Len(ms) :
           toServer'[Len(toServer) + Len(notes) + i] = Request(nextId + i - 1, ms[i])
  BY AskWrites
<1>3. \A k \in 1 .. Len(ms) : nextId + k - 1 \in Nat /\ ms[k] \in Methods
  BY DEF MethodsOK
<1>4. ASSUME NEW i \in 1 .. Len(toServer'), i > Len(toServer), IsRequest(toServer'[i])
      PROVE  \E k \in 1 .. Len(ms) : /\ i = Len(toServer) + Len(notes) + k
                                     /\ toServer'[i].id = nextId + k - 1
                                     /\ toServer'[i].method = ms[k]
  <2>1. i > Len(toServer) + Len(notes)
    <3> SUFFICES ASSUME ~(i > Len(toServer) + Len(notes)) PROVE FALSE
      OBVIOUS
    <3>1. PICK k \in 1 .. Len(notes) : i = Len(toServer) + k
      <4>1. i - Len(toServer) \in 1 .. Len(notes) /\ i = Len(toServer) + (i - Len(toServer))
        BY <1>1, <1>2, <1>4
      <4> QED BY <4>1
    <3>2. toServer'[i] = notes[k] /\ notes[k] \in ChangeMessages
      BY <1>2, <3>1
    <3> QED BY <1>4, <3>2, MessageKinds
  <2>2. PICK k \in 1 .. Len(ms) : i = Len(toServer) + Len(notes) + k
    <3>1. /\ i - (Len(toServer) + Len(notes)) \in 1 .. Len(ms)
          /\ i = Len(toServer) + Len(notes) + (i - (Len(toServer) + Len(notes)))
      BY <1>1, <1>2, <2>1
    <3> QED BY <3>1
  <2>3. toServer'[i] = Request(nextId + k - 1, ms[k])
    BY <1>2, <2>2
  <2> QED BY <1>3, <2>2, <2>3, MessageKinds
<1>5. ASSUME NEW k \in 1 .. Len(ms)
      PROVE  \E i \in 1 .. Len(toServer') : IsRequest(toServer'[i]) /\ toServer'[i].id = nextId + k - 1
  <2>1. PICK i \in 1 .. Len(toServer') : i = Len(toServer) + Len(notes) + k
    <3>1. Len(toServer) + Len(notes) + k \in 1 .. Len(toServer')
      BY <1>1, <1>2
    <3> QED BY <3>1
  <2>2. toServer'[i] = Request(nextId + k - 1, ms[k])
    BY <1>2, <2>1
  <2> QED BY <1>3, <2>2, MessageKinds
<1>6. Len(toServer) <= Len(toServer')
  BY <1>1, <1>2
<1> QED BY <1>1, <1>2, <1>4, <1>5, <1>6

LEMMA AskMethods ==
  ASSUME MethodsOK, NEW notes, NEW ms \in Seq(Methods), Ask(notes, ms)
  PROVE  /\ MethodsOK'
         /\ DOMAIN methods \subseteq DOMAIN methods'
         /\ \A i \in DOMAIN methods : methods'[i] = methods[i]
         /\ \A i \in DOMAIN methods : i < nextId
         /\ \A k \in 1 .. Len(ms) :
              nextId + k - 1 \in DOMAIN methods' /\ methods'[nextId + k - 1] = ms[k]
         /\ \A i \in DOMAIN methods' :
              i \in DOMAIN methods \/ \E k \in 1 .. Len(ms) : i = nextId + k - 1
<1> DEFINE ids == nextId .. nextId + Len(ms) - 1
<1>1. /\ nextId' = nextId + Len(ms)
      /\ methods' = [i \in DOMAIN methods \cup ids |->
                       IF i \in ids THEN ms[i - nextId + 1] ELSE methods[i]]
  BY DEF Ask
<1>2. /\ nextId \in Nat /\ Len(ms) \in Nat /\ nextId' \in Nat
      /\ \A i \in DOMAIN methods : i \in 0 .. nextId - 1
  BY <1>1 DEF MethodsOK
<1>3. \A i \in DOMAIN methods : i \notin ids /\ i < nextId
  BY <1>2
<1>4. \A k \in 1 .. Len(ms) : nextId + k - 1 \in ids /\ (nextId + k - 1) - nextId + 1 = k
  BY <1>2
<1>5. \A i \in ids : i - nextId + 1 \in 1 .. Len(ms) /\ i = nextId + (i - nextId + 1) - 1
  BY <1>2
<1>6. DOMAIN methods' \subseteq 0 .. nextId' - 1
  BY <1>1, <1>2
<1> HIDE DEF ids
<1>7. \A i \in DOMAIN methods' : methods'[i] \in Methods
  BY <1>1, <1>5 DEF MethodsOK
<1>8. MethodsOK'
  BY <1>2, <1>6, <1>7 DEF MethodsOK
<1>9. \A i \in DOMAIN methods' :
        i \in DOMAIN methods \/ \E k \in 1 .. Len(ms) : i = nextId + k - 1
  BY <1>1, <1>5
<1>10. \A k \in 1 .. Len(ms) :
         nextId + k - 1 \in DOMAIN methods' /\ methods'[nextId + k - 1] = ms[k]
  BY <1>1, <1>4
<1>11. DOMAIN methods \subseteq DOMAIN methods' /\ \A i \in DOMAIN methods : methods'[i] = methods[i]
  BY <1>1, <1>3
<1> QED BY <1>3, <1>8, <1>9, <1>10, <1>11

(* Fresh ids keep all apart.                                               *)
LEMMA AskTraced ==
  ASSUME MethodsOK, QueueOK, Traced, process' = "running" => AllKnown,
         NEW notes \in Seq(ChangeMessages), NEW ms \in Seq(Methods),
         Ask(notes, ms), UNCHANGED <<toClient, buffer, working>>
  PROVE  MethodsOK' /\ QueueOK' /\ Traced'
<1>1. /\ MethodsOK'
      /\ DOMAIN methods \subseteq DOMAIN methods'
      /\ \A i \in DOMAIN methods : methods'[i] = methods[i]
      /\ \A i \in DOMAIN methods : i < nextId
      /\ \A k \in 1 .. Len(ms) :
           nextId + k - 1 \in DOMAIN methods' /\ methods'[nextId + k - 1] = ms[k]
      /\ \A i \in DOMAIN methods' :
           i \in DOMAIN methods \/ \E k \in 1 .. Len(ms) : i = nextId + k - 1
  BY AskMethods
<1>2. Pending' = Pending /\ working' = working
  BY DEF Pending
<1>3. CASE process' # "running"
  <2>1. toServer' = toServer
    BY <1>3 DEF Ask, Write
  <2>2. Queued'
    BY <1>1, <2>1 DEF Traced, Queued
  <2>3. Worked'
    BY <1>1, <1>2, <2>1 DEF Traced, Worked
  <2>4. Replied'
    BY <1>1, <1>2, <2>1 DEF Traced, Replied
  <2> QED BY <1>1, <1>3, <2>1, <2>2, <2>3, <2>4 DEF Traced, QueueOK
<1>4. CASE process' = "running"
  <2>1. /\ toServer' \in Seq(Messages)
        /\ Len(toServer) \in Nat /\ Len(toServer) <= Len(toServer')
        /\ \A i \in 1 .. Len(toServer) : toServer'[i] = toServer[i]
        /\ \A i \in 1 .. Len(toServer') :
             i > Len(toServer) /\ IsRequest(toServer'[i]) =>
               \E k \in 1 .. Len(ms) : /\ i = Len(toServer) + Len(notes) + k
                                       /\ toServer'[i].id = nextId + k - 1
                                       /\ toServer'[i].method = ms[k]
        /\ \A k \in 1 .. Len(ms) :
             \E i \in 1 .. Len(toServer') : /\ IsRequest(toServer'[i])
                                            /\ toServer'[i].id = nextId + k - 1
    BY <1>4, AskPlaces
  <2>2. DOMAIN toServer = 1 .. Len(toServer) /\ DOMAIN toServer' = 1 .. Len(toServer')
    BY <2>1 DEF QueueOK
  <2>3. nextId \in Nat /\ Len(notes) \in Nat
    BY DEF MethodsOK
  <2>4. \A i \in DOMAIN toServer' : IsRequest(toServer'[i]) =>
          \/ i \in DOMAIN toServer /\ toServer'[i] = toServer[i]
          \/ \E k \in 1 .. Len(ms) : /\ i = Len(toServer) + Len(notes) + k
                                      /\ toServer'[i].id = nextId + k - 1
                                      /\ toServer'[i].method = ms[k]
    <3> SUFFICES ASSUME NEW i \in DOMAIN toServer', IsRequest(toServer'[i])
                 PROVE  \/ i \in DOMAIN toServer /\ toServer'[i] = toServer[i]
                        \/ \E k \in 1 .. Len(ms) : /\ i = Len(toServer) + Len(notes) + k
                                                    /\ toServer'[i].id = nextId + k - 1
                                                    /\ toServer'[i].method = ms[k]
      OBVIOUS
    <3>1. CASE i > Len(toServer)
      BY <2>1, <2>2, <3>1
    <3>2. CASE ~(i > Len(toServer))
      <4>1. i \in 1 .. Len(toServer)
        BY <2>1, <2>2, <3>2
      <4> QED BY <2>1, <2>2, <4>1
    <3> QED BY <3>1, <3>2
  <2>5. \A k \in 1 .. Len(ms) : nextId + k - 1 \notin DOMAIN methods
    <3> TAKE k \in 1 .. Len(ms)
    <3>1. ~(nextId + k - 1 < nextId)
      BY <2>3
    <3> QED BY <1>1, <3>1
  <2>6. Queued'
    <3>1. ASSUME NEW i \in DOMAIN toServer', IsRequest(toServer'[i])
          PROVE  /\ toServer'[i].id \in DOMAIN methods'
                 /\ methods'[toServer'[i].id] = toServer'[i].method
      BY <1>1, <2>4, <3>1 DEF Traced, Queued
    <3>2. ASSUME NEW i \in DOMAIN toServer', IsRequest(toServer'[i]),
                 NEW j \in DOMAIN toServer', IsRequest(toServer'[j]),
                 toServer'[i].id = toServer'[j].id
          PROVE  i = j
      <4>1. CASE i \in DOMAIN toServer /\ toServer'[i] = toServer[i]
        <5>1. toServer'[i].id \in DOMAIN methods
          BY <3>2, <4>1 DEF Traced, Queued
        <5>2. j \in DOMAIN toServer /\ toServer'[j] = toServer[j]
          BY <2>4, <2>5, <3>2, <5>1
        <5> QED BY <3>2, <4>1, <5>2 DEF Traced, Queued
      <4>2. CASE \E k \in 1 .. Len(ms) : /\ i = Len(toServer) + Len(notes) + k
                                         /\ toServer'[i].id = nextId + k - 1
        <5>1. PICK k \in 1 .. Len(ms) : /\ i = Len(toServer) + Len(notes) + k
                                       /\ toServer'[i].id = nextId + k - 1
          BY <4>2
        <5>2. ~(j \in DOMAIN toServer /\ toServer'[j] = toServer[j])
          BY <2>5, <3>2, <5>1 DEF Traced, Queued
        <5>3. PICK l \in 1 .. Len(ms) : /\ j = Len(toServer) + Len(notes) + l
                                       /\ toServer'[j].id = nextId + l - 1
          BY <2>4, <3>2, <5>2
        <5>4. nextId + k - 1 = nextId + l - 1
          BY <3>2, <5>1, <5>3
        <5>5. k = l
          BY <2>3, <5>4
        <5> QED BY <5>1, <5>3, <5>5
      <4> QED BY <2>4, <3>2, <4>1, <4>2
    <3> QED BY <3>1, <3>2 DEF Queued
  <2>7. Worked'
    <3>1. \A r \in working : r.id \in DOMAIN methods
      BY DEF Traced, Worked
    <3>2. ASSUME NEW r \in working, NEW i \in DOMAIN toServer', IsRequest(toServer'[i])
          PROVE  toServer'[i].id # r.id
      BY <2>4, <2>5, <3>1, <3>2 DEF Traced, Worked
    <3> QED BY <1>1, <1>2, <3>2 DEF Traced, Worked
  <2>8. Replied'
    <3>1. \A i \in DOMAIN Pending : Pending[i].id \in DOMAIN methods
      BY DEF Traced, Replied
    <3>2. ASSUME NEW i \in DOMAIN Pending, NEW j \in DOMAIN toServer', IsRequest(toServer'[j])
          PROVE  toServer'[j].id # Pending[i].id
      BY <2>4, <2>5, <3>1, <3>2 DEF Traced, Replied
    <3> QED BY <1>1, <1>2, <3>2 DEF Traced, Replied
  <2>9. AllKnown'
    <3> SUFFICES ASSUME NEW m \in DOMAIN methods'
                 PROVE  \/ \E i \in DOMAIN Pending : Pending[i].id = m
                        \/ \E r \in working : r.id = m
                        \/ \E i \in DOMAIN toServer' : IsRequest(toServer'[i]) /\ toServer'[i].id = m
      BY <1>2 DEF AllKnown
    <3>1. CASE m \in DOMAIN methods
      <4>1. 1 .. Len(toServer) \subseteq 1 .. Len(toServer')
        <5>1. Len(toServer') \in Nat
          BY <2>1
        <5> QED BY <2>1, <5>1
      <4>2. \A i \in DOMAIN toServer : i \in DOMAIN toServer' /\ toServer'[i] = toServer[i]
        BY <2>1, <2>2, <4>1
      <4>3. \/ \E i \in DOMAIN Pending : Pending[i].id = m
            \/ \E r \in working : r.id = m
            \/ \E i \in DOMAIN toServer : IsRequest(toServer[i]) /\ toServer[i].id = m
        BY <1>4, <3>1 DEF AllKnown
      <4> QED BY <4>2, <4>3
    <3>2. CASE \E k \in 1 .. Len(ms) : m = nextId + k - 1
      BY <2>1, <2>2, <3>2
    <3> QED BY <1>1, <3>1, <3>2
  <2> QED BY <1>1, <2>1, <2>6, <2>7, <2>8, <2>9 DEF Traced, QueueOK
<1> QED BY <1>3, <1>4

(***************************************************************************)
(* The parser.  One call takes the first messages that are pending.        *)
(***************************************************************************)

LEMMA HandledAre ==
  ASSUME NEW messages, NEW n \in Handled(messages)
  PROVE  n \in DOMAIN messages
  BY DEF Handled

(* What a call of the parser takes and leaves.                             *)
LEMMA ChunkTakes ==
  ASSUME ArrivingOK, NEW k \in 0 .. Len(toClient), Chunk(k)
  PROVE  /\ ArrivingOK'
         /\ \/ Pending' = Pending /\ UNCHANGED <<phase, session, methods, text, timer, toServer>>
            \/ \E n \in 1 .. Len(Pending) :
                 /\ Handle(SubSeq(Pending, 1, n))
                 /\ Pending' = SubSeq(Pending, n + 1, Len(Pending))
<1>0. Len(toClient) \in Nat /\ Len(buffer) \in Nat /\ k \in Nat
  BY DEF ArrivingOK
<1>1. PICK first : first = SubSeq(toClient, 1, k)
  OBVIOUS
<1>2. /\ first \in Seq(Answers) /\ Len(first) = k
      /\ \A i \in 1 .. k : first[i] = toClient[i]
  BY <1>0, <1>1 DEF ArrivingOK
<1>3. PICK all : all = buffer \o first
  OBVIOUS
<1>4. /\ all \in Seq(Answers) /\ Len(all) = Len(buffer) + k
      /\ \A i \in 1 .. Len(all) : all[i] = IF i <= Len(buffer) THEN buffer[i] ELSE first[i - Len(buffer)]
  <2>1. first \in Seq(Answers) /\ buffer \in Seq(Answers)
    BY <1>2 DEF ArrivingOK
  <2>2. /\ buffer \o first \in Seq(Answers) /\ Len(buffer \o first) = Len(buffer) + Len(first)
        /\ \A i \in 1 .. Len(buffer) + Len(first) :
             (buffer \o first)[i] = IF i <= Len(buffer) THEN buffer[i] ELSE first[i - Len(buffer)]
    BY ONLY <2>1, ConcatProperties
  <2> QED BY <1>2, <1>3, <2>2
<1>5. PICK rest : rest = SubSeq(toClient, k + 1, Len(toClient))
  OBVIOUS
<1>6. /\ rest \in Seq(Answers) /\ Len(rest) = Len(toClient) - k
      /\ \A i \in 1 .. Len(rest) : rest[i] = toClient[k + i]
  BY <1>0, <1>5 DEF ArrivingOK
<1>7. toClient' = rest /\ split' \in BOOLEAN
  <2>1. split' \in {k = 0, k < Len(toClient)} /\ toClient' = Rest(k, split')
    BY DEF Chunk
  <2>2. (k = 0) \in BOOLEAN /\ (k < Len(toClient)) \in BOOLEAN
    BY <1>0
  <2>3. split' \in BOOLEAN
    BY <2>1, <2>2
  <2> QED BY <1>5, <2>1, <2>3 DEF Rest
<1>8. \/ all = << >> /\ UNCHANGED <<phase, session, methods, text, timer, toServer, buffer>>
      \/ \E n \in Handled(all) : buffer' = SubSeq(all, n + 1, Len(all)) /\ Handle(SubSeq(all, 1, n))
  BY <1>1, <1>3 DEF Chunk
(* The pending messages are all and the rest. *)
<1>9. Len(Pending) = Len(all) + Len(rest) /\ Pending \in Seq(Answers)
  <2>1. Len(Pending) = Len(buffer) + Len(toClient) /\ Pending \in Seq(Answers)
    BY PendingTypes
  <2>2. Len(all) = Len(buffer) + k /\ Len(rest) = Len(toClient) - k
    BY <1>4, <1>6
  <2> QED BY <1>0, <2>1, <2>2
<1>10. \A i \in 1 .. Len(all) : Pending[i] = all[i]
  <2> TAKE i \in 1 .. Len(all)
  <2>1. i \in 1 .. Len(Pending)
    BY <1>0, <1>4, <1>6, <1>9
  <2>2. CASE i <= Len(buffer)
    BY <1>4, <2>1, <2>2, PendingTypes
  <2>3. CASE ~(i <= Len(buffer))
    <3>1. i - Len(buffer) \in 1 .. k
      BY <1>0, <1>4, <2>3
    <3>2. all[i] = first[i - Len(buffer)] /\ first[i - Len(buffer)] = toClient[i - Len(buffer)]
      BY <1>2, <1>4, <2>3, <3>1
    <3> QED BY <2>1, <2>3, <3>2, PendingTypes
  <2> QED BY <2>2, <2>3
<1>11. \A i \in 1 .. Len(rest) : Pending[Len(all) + i] = rest[i]
  <2> TAKE i \in 1 .. Len(rest)
  <2>1. PICK j \in 1 .. Len(Pending) : j = Len(all) + i
    BY <1>0, <1>4, <1>6, <1>9
  <2>2. ~(j <= Len(buffer)) /\ j - Len(buffer) = k + i
    BY <1>0, <1>4, <1>6, <2>1
  <2>3. Pending[j] = toClient[k + i]
    BY <2>2, PendingTypes
  <2> QED BY <1>6, <2>1, <2>3
<1>12. CASE all = << >> /\ UNCHANGED <<phase, session, methods, text, timer, toServer, buffer>>
  <2>1. Len(all) = 0
    BY <1>12
  <2>2. k = 0 /\ buffer = << >>
    BY <1>0, <1>4, <2>1 DEF ArrivingOK
  <2>3. rest = toClient
    BY <1>5, <2>2, SubSeqFull DEF ArrivingOK
  <2>4. toClient' = toClient /\ buffer' = buffer
    BY <1>7, <1>12, <2>3
  <2>5. Pending' = Pending
    BY <2>4 DEF Pending
  <2> QED BY <1>7, <1>12, <2>4, <2>5 DEF ArrivingOK
<1>13. ASSUME NEW n \in Handled(all),
              buffer' = SubSeq(all, n + 1, Len(all)), Handle(SubSeq(all, 1, n))
       PROVE  /\ ArrivingOK'
              /\ \E m \in 1 .. Len(Pending) :
                   /\ Handle(SubSeq(Pending, 1, m))
                   /\ Pending' = SubSeq(Pending, m + 1, Len(Pending))
  <2>1. n \in 1 .. Len(all) /\ n \in 1 .. Len(Pending) /\ n \in Nat
    BY <1>0, <1>4, <1>6, <1>9, HandledAre
  <2>2. SubSeq(all, 1, n) = SubSeq(Pending, 1, n)
    <3>1. /\ SubSeq(all, 1, n) \in Seq(Answers) /\ Len(SubSeq(all, 1, n)) = n
          /\ \A i \in 1 .. n : SubSeq(all, 1, n)[i] = all[i]
      BY <1>4, <2>1
    <3>2. /\ SubSeq(Pending, 1, n) \in Seq(Answers) /\ Len(SubSeq(Pending, 1, n)) = n
          /\ \A i \in 1 .. n : SubSeq(Pending, 1, n)[i] = Pending[i]
      BY <1>9, <2>1
    <3>3. \A i \in 1 .. n : all[i] = Pending[i]
      BY <1>4, <1>10, <2>1
    <3>4. \A i \in 1 .. n : SubSeq(all, 1, n)[i] = SubSeq(Pending, 1, n)[i]
      BY <3>1, <3>2, <3>3
    <3> QED BY ONLY <3>1, <3>2, <3>4, SeqEqual
  <2>3. /\ buffer' \in Seq(Answers) /\ Len(buffer') = Len(all) - n
        /\ \A i \in 1 .. Len(all) - n : buffer'[i] = all[n + i]
    BY <1>4, <1>13, <2>1
  <2>4. ArrivingOK'
    BY <1>6, <1>7, <2>3 DEF ArrivingOK
  <2>5. PICK left : left = SubSeq(Pending, n + 1, Len(Pending))
    OBVIOUS
  <2>6. /\ left \in Seq(Answers) /\ Len(left) = Len(Pending) - n
        /\ \A i \in 1 .. Len(Pending) - n : left[i] = Pending[n + i]
    BY <1>9, <2>1, <2>5
  <2>7. PICK now : now = buffer' \o rest
    OBVIOUS
  <2>8. /\ now \in Seq(Answers) /\ Len(now) = Len(buffer') + Len(rest)
        /\ \A i \in 1 .. Len(now) : now[i] = IF i <= Len(buffer') THEN buffer'[i] ELSE rest[i - Len(buffer')]
    <3>1. buffer' \in Seq(Answers) /\ rest \in Seq(Answers)
      BY <1>6, <2>3
    <3>2. /\ buffer' \o rest \in Seq(Answers) /\ Len(buffer' \o rest) = Len(buffer') + Len(rest)
          /\ \A i \in 1 .. Len(buffer') + Len(rest) :
               (buffer' \o rest)[i] = IF i <= Len(buffer') THEN buffer'[i] ELSE rest[i - Len(buffer')]
      BY ONLY <3>1, ConcatProperties
    <3> QED BY <2>7, <3>2
  <2>9. Len(now) = Len(left)
    <3>1. Len(now) = (Len(all) - n) + Len(rest)
      BY <2>3, <2>8
    <3>2. Len(left) = (Len(all) + Len(rest)) - n
      BY <1>9, <2>6
    <3>3. Len(all) \in Nat /\ Len(rest) \in Nat /\ n \in Nat
      BY <1>4, <1>6, <2>1
    <3> QED BY ONLY <3>1, <3>2, <3>3
  <2>10. ASSUME NEW i \in 1 .. Len(now) PROVE now[i] = left[i]
    <3>1. left[i] = Pending[n + i]
      BY <2>6, <2>9
    <3>2. CASE i <= Len(buffer')
      <4>1. i \in 1 .. Len(all) - n
        BY <1>4, <2>1, <2>3, <3>2, <1>0
      <4>2. n + i \in 1 .. Len(all)
        BY <1>0, <1>4, <2>1, <4>1
      <4> QED BY <1>10, <2>3, <2>8, <3>1, <3>2, <4>1, <4>2
    <3>3. CASE ~(i <= Len(buffer'))
      <4>1. PICK j \in 1 .. Len(rest) : j = i - Len(buffer')
        <5>1. Len(buffer') \in Nat /\ Len(rest) \in Nat /\ i \in 1 .. Len(buffer') + Len(rest)
          BY <1>6, <2>3, <2>8
        <5>2. i - Len(buffer') \in 1 .. Len(rest)
          BY <3>3, <5>1
        <5> QED BY <5>2
      <4>2. n + i = Len(all) + j
        <5>1. /\ Len(buffer') = Len(all) - n /\ Len(all) \in Nat /\ n \in Nat
              /\ j \in Nat /\ i \in Nat
          BY <1>4, <2>1, <2>3, <2>8
        <5> QED BY ONLY <4>1, <5>1
      <4>3. now[i] = rest[j]
        BY <2>8, <3>3, <4>1
      <4> QED BY <1>11, <3>1, <4>2, <4>3
    <3> QED BY <3>2, <3>3
  <2>11. now = left
    BY ONLY <2>6, <2>8, <2>9, <2>10, SeqEqual
  <2>12. Pending' = left
    BY <1>7, <2>7, <2>11 DEF Pending
  <2> QED BY <1>13, <2>1, <2>2, <2>4, <2>5, <2>12
<1> QED BY <1>8, <1>12, <1>13

(* The exit that is sent is no request.                                    *)
LEMMA HandleWrites ==
  ASSUME QueueOK, NEW messages, Handle(messages), process' = process
  PROVE  /\ QueueOK'
         /\ \A i \in DOMAIN toServer : i \in DOMAIN toServer' /\ toServer'[i] = toServer[i]
         /\ \A i \in DOMAIN toServer' :
              i \notin DOMAIN toServer => ~IsRequest(toServer'[i]) /\ toServer'[i].kind # "change"
<1> DEFINE exit == [kind |-> "exit"]
<1>1. toServer' = toServer \/ toServer' = toServer \o <<exit>>
  BY DEF Handle, Write
<1>2. exit \in Messages /\ ~IsRequest(exit) /\ exit.kind # "change"
  BY DEF Messages, IsRequest
<1> HIDE DEF exit
<1>3. CASE toServer' = toServer
  BY <1>3 DEF QueueOK
<1>4. CASE toServer' = toServer \o <<exit>>
  <2>1. /\ toServer' \in Seq(Messages) /\ Len(toServer') = Len(toServer) + 1
        /\ \A i \in 1 .. Len(toServer) : toServer'[i] = toServer[i]
        /\ toServer'[Len(toServer) + 1] = exit
    BY <1>2, <1>4 DEF QueueOK
  <2>2. /\ DOMAIN toServer = 1 .. Len(toServer) /\ Len(toServer) \in Nat
        /\ DOMAIN toServer' = 1 .. Len(toServer) + 1
    BY <2>1 DEF QueueOK
  <2>3. \A i \in DOMAIN toServer : i \in DOMAIN toServer'
    BY <2>2
  <2>4. \A i \in DOMAIN toServer' : i \notin DOMAIN toServer => i = Len(toServer) + 1
    BY <2>2
  <2> QED BY <1>2, <2>1, <2>2, <2>3, <2>4 DEF QueueOK
<1> QED BY <1>1, <1>3, <1>4

LEMMA PrefixOf ==
  ASSUME NEW S, NEW s \in Seq(S), NEW n \in 1 .. Len(s)
  PROVE  DOMAIN SubSeq(s, 1, n) = 1 .. n /\ \A j \in 1 .. n : SubSeq(s, 1, n)[j] = s[j]
<1>1. \A j \in 1 .. n : s[j] \in S
  OBVIOUS
<1>2. /\ SubSeq(s, 1, n) \in Seq(S) /\ Len(SubSeq(s, 1, n)) = IF 1 <= n THEN n - 1 + 1 ELSE 0
      /\ \A j \in 1 .. n - 1 + 1 : SubSeq(s, 1, n)[j] = s[1 + j - 1]
  BY <1>1, SubSeqProperties
<1>3. n - 1 + 1 = n /\ 1 <= n /\ \A j \in 1 .. n : 1 + j - 1 = j
  OBVIOUS
<1> QED BY <1>2, <1>3

LEMMA HandleForgets ==
  ASSUME ArrivingOK, MethodsOK, NEW n \in 1 .. Len(Pending), Handle(SubSeq(Pending, 1, n)),
         nextId' = nextId
  PROVE  /\ MethodsOK'
         /\ \A m : m \in DOMAIN methods' <=>
                     m \in DOMAIN methods /\ \A j \in 1 .. n : Pending[j].id # m
         /\ \A m \in DOMAIN methods' : methods'[m] = methods[m]
<1>1. PICK messages : messages = SubSeq(Pending, 1, n)
  OBVIOUS
<1>2. Pending \in Seq(Answers) /\ n \in 1 .. Len(Pending)
  BY PendingTypes
<1>3. DOMAIN messages = 1 .. n /\ \A j \in 1 .. n : messages[j] = Pending[j]
  BY ONLY <1>1, <1>2, PrefixOf
<1>4. methods' = Restrict(methods, DOMAIN methods \ {messages[j].id : j \in DOMAIN messages})
  <2>1. Handle(messages)
    BY <1>1
  <2> QED BY ONLY <2>1 DEF Handle
<1>5. \A m : m \in {messages[j].id : j \in DOMAIN messages} <=> \E j \in 1 .. n : Pending[j].id = m
  BY <1>3
<1>6. \A m : m \in DOMAIN methods' <=>
               m \in DOMAIN methods /\ \A j \in 1 .. n : Pending[j].id # m
  BY <1>4, <1>5 DEF Restrict
<1>7. \A m \in DOMAIN methods' : methods'[m] = methods[m]
  BY <1>4 DEF Restrict
<1>8. MethodsOK'
  BY <1>6, <1>7 DEF MethodsOK
<1> QED BY <1>6, <1>7, <1>8

(* What is handled is forgotten, and each pending answer has an id of its  *)
(* own, so that those that are left find theirs.                           *)
LEMMA HandleTraced ==
  ASSUME ArrivingOK, MethodsOK, QueueOK, Traced,
         NEW n \in 1 .. Len(Pending), Handle(SubSeq(Pending, 1, n)),
         Pending' = SubSeq(Pending, n + 1, Len(Pending)),
         UNCHANGED <<nextId, process, working>>
  PROVE  MethodsOK' /\ QueueOK' /\ Traced'
<1>1. /\ MethodsOK'
      /\ \A m : m \in DOMAIN methods' <=>
                  m \in DOMAIN methods /\ \A j \in 1 .. n : Pending[j].id # m
      /\ \A m \in DOMAIN methods' : methods'[m] = methods[m]
  BY HandleForgets
<1>2. /\ QueueOK'
      /\ \A i \in DOMAIN toServer : i \in DOMAIN toServer' /\ toServer'[i] = toServer[i]
      /\ \A i \in DOMAIN toServer' : IsRequest(toServer'[i]) => i \in DOMAIN toServer
  BY HandleWrites
<1>3. Pending \in Seq(Answers) /\ n \in Nat /\ Len(Pending) \in Nat
  BY PendingTypes
<1>4. DOMAIN Pending = 1 .. Len(Pending) /\ 1 .. n \subseteq DOMAIN Pending
  BY <1>3
<1>5. /\ DOMAIN Pending' = 1 .. Len(Pending) - n
      /\ \A i \in 1 .. Len(Pending) - n : Pending'[i] = Pending[n + i]
  BY <1>3
<1>6. \A i \in DOMAIN Pending' : /\ n + i \in DOMAIN Pending /\ n + i \notin 1 .. n
                                 /\ Pending'[i] = Pending[n + i]
  BY <1>3, <1>4, <1>5
<1>7. \A i \in DOMAIN Pending : i \in 1 .. n \/ \E j \in DOMAIN Pending' : i = n + j
  <2> TAKE i \in DOMAIN Pending
  <2>1. CASE i \notin 1 .. n
    <3>1. i - n \in 1 .. Len(Pending) - n /\ i = n + (i - n)
      BY <1>3, <1>4, <2>1
    <3> QED BY <1>5, <3>1
  <2> QED BY <2>1
<1>8. Queued'
  <2>1. ASSUME NEW i \in DOMAIN toServer', IsRequest(toServer'[i])
        PROVE  /\ toServer'[i].id \in DOMAIN methods'
               /\ methods'[toServer'[i].id] = toServer'[i].method
    <3>1. i \in DOMAIN toServer /\ toServer'[i] = toServer[i]
      BY <1>2, <2>1
    <3>2. \A j \in 1 .. n : Pending[j].id # toServer[i].id
      BY <1>4, <2>1, <3>1 DEF Traced, Replied
    <3> QED BY <1>1, <2>1, <3>1, <3>2 DEF Traced, Queued
  <2> QED BY <1>2, <2>1 DEF Traced, Queued
<1>9. Worked'
  <2>1. \A r \in working : \A j \in 1 .. n : Pending[j].id # r.id
    BY <1>4 DEF Traced, Replied
  <2> QED BY <1>1, <1>2, <2>1 DEF Traced, Worked
<1>10. Replied'
  <2>1. ASSUME NEW i \in DOMAIN Pending' PROVE Pending'[i].id \in DOMAIN methods'
    <3>1. PICK p \in DOMAIN Pending : p \notin 1 .. n /\ Pending'[i] = Pending[p]
      BY <1>6
    <3>2. \A j \in 1 .. n : Pending[j].id # Pending[p].id
      BY <1>4, <3>1 DEF Traced, Replied
    <3>3. Pending[p].id \in DOMAIN methods
      BY DEF Traced, Replied
    <3> QED BY <1>1, <3>1, <3>2, <3>3
  <2>2. ASSUME NEW i \in DOMAIN Pending', NEW j \in DOMAIN Pending', Pending'[i].id = Pending'[j].id
        PROVE  i = j
    <3>1. n + i = n + j
      BY <1>6, <2>2 DEF Traced, Replied
    <3> QED BY <1>3, <1>5, <3>1
  <2>3. ASSUME NEW i \in DOMAIN Pending'
        PROVE  /\ \A r \in working : r.id # Pending'[i].id
               /\ \A j \in DOMAIN toServer' :
                    IsRequest(toServer'[j]) => toServer'[j].id # Pending'[i].id
    BY <1>2, <1>6 DEF Traced, Replied
  <2> QED BY <2>1, <2>2, <2>3 DEF Replied
<1>11. process' = "running" => AllKnown'
  <2> SUFFICES ASSUME process = "running", NEW m \in DOMAIN methods'
               PROVE  \/ \E i \in DOMAIN Pending' : Pending'[i].id = m
                      \/ \E r \in working : r.id = m
                      \/ \E i \in DOMAIN toServer' : IsRequest(toServer'[i]) /\ toServer'[i].id = m
    BY DEF AllKnown
  <2>1. m \in DOMAIN methods /\ \A j \in 1 .. n : Pending[j].id # m
    BY <1>1
  <2>2. \/ \E i \in DOMAIN Pending : Pending[i].id = m
        \/ \E r \in working : r.id = m
        \/ \E i \in DOMAIN toServer : IsRequest(toServer[i]) /\ toServer[i].id = m
    BY <2>1 DEF Traced, AllKnown
  <2>3. CASE \E i \in DOMAIN Pending : Pending[i].id = m
    <3>1. PICK i \in DOMAIN Pending : Pending[i].id = m
      BY <2>3
    <3>2. PICK j \in DOMAIN Pending' : i = n + j
      BY <1>7, <2>1, <3>1
    <3>3. Pending'[j] = Pending[i]
      BY <1>6, <3>2
    <3> QED BY <3>1, <3>3
  <2> QED BY <1>2, <2>2, <2>3
<1> QED BY <1>1, <1>2, <1>8, <1>9, <1>10, <1>11 DEF Traced

(***************************************************************************)
(* The server.                                                             *)
(***************************************************************************)

LEMMA QueueTail ==
  ASSUME QueueOK, toServer # << >>, toServer' = Tail(toServer)
  PROVE  /\ QueueOK' /\ Head(toServer) \in Messages
         /\ Head(toServer) = toServer[1] /\ 1 \in DOMAIN toServer
         /\ \A i \in DOMAIN toServer' : /\ i + 1 \in DOMAIN toServer /\ i + 1 # 1 /\ i \in Nat
                                        /\ toServer'[i] = toServer[i + 1]
         /\ \A i \in DOMAIN toServer : i = 1 \/ \E j \in DOMAIN toServer' : i = j + 1
<1>1. /\ Len(toServer) \in Nat \ {0} /\ DOMAIN toServer = 1 .. Len(toServer)
      /\ Head(toServer) \in Messages /\ Head(toServer) = toServer[1]
  BY DEF QueueOK
<1>2. /\ toServer' \in Seq(Messages) /\ Len(toServer') = Len(toServer) - 1
      /\ \A i \in 1 .. Len(toServer) - 1 : toServer'[i] = toServer[i + 1]
  BY HeadTailProperties DEF QueueOK
<1>3. DOMAIN toServer' = 1 .. Len(toServer) - 1
  BY <1>2
<1>4. \A i \in DOMAIN toServer' : i + 1 \in DOMAIN toServer /\ i + 1 # 1 /\ i \in Nat
  BY <1>1, <1>3
<1>5. ASSUME NEW i \in DOMAIN toServer, i # 1 PROVE \E j \in DOMAIN toServer' : i = j + 1
  <2>1. i - 1 \in DOMAIN toServer' /\ i = (i - 1) + 1
    BY <1>1, <1>3, <1>5
  <2> QED BY <2>1
<1> QED BY <1>1, <1>2, <1>3, <1>4, <1>5 DEF QueueOK

LEMMA TakeTraced ==
  ASSUME ArrivingOK, QueueOK, ServerOK, Traced, Take
  PROVE  QueueOK' /\ ServerOK' /\ Traced'
<1>1. /\ QueueOK' /\ Head(toServer) \in Messages
      /\ Head(toServer) = toServer[1] /\ 1 \in DOMAIN toServer
      /\ \A i \in DOMAIN toServer' : /\ i + 1 \in DOMAIN toServer /\ i + 1 # 1 /\ i \in Nat
                                     /\ toServer'[i] = toServer[i + 1]
      /\ \A i \in DOMAIN toServer : i = 1 \/ \E j \in DOMAIN toServer' : i = j + 1
  BY QueueTail DEF Take
<1>2. PICK message : message = Head(toServer)
  OBVIOUS
<1>3. UNCHANGED <<methods, Pending>>
  BY DEF Take, client, arriving, Pending
<1>4. Queued'
  <2>1. ASSUME NEW i \in DOMAIN toServer', NEW j \in DOMAIN toServer',
               IsRequest(toServer'[i]), IsRequest(toServer'[j]), toServer'[i].id = toServer'[j].id
        PROVE  i = j
    <3>1. i + 1 = j + 1
      BY <1>1, <2>1 DEF Traced, Queued
    <3> QED BY <1>1, <3>1
  <2> QED BY <1>1, <1>3, <2>1 DEF Traced, Queued
<1>5. CASE message.kind = "change"
  <2>1. copy' = message.text /\ UNCHANGED <<process, working>>
    BY <1>2, <1>5 DEF Take
  <2>2. message.text \in Texts /\ ~IsRequest(toServer[1])
    BY <1>1, <1>2, <1>5 DEF Messages, Requests, IsRequest
  <2>3. Worked'
    BY <1>1, <1>3, <2>1 DEF Traced, Worked
  <2>4. Replied'
    BY <1>1, <1>3, <2>1 DEF Traced, Replied
  <2>5. process' = "running" => AllKnown'
    BY <1>1, <1>3, <2>1, <2>2 DEF Traced, AllKnown
  <2> QED BY <1>1, <1>4, <2>1, <2>2, <2>3, <2>4, <2>5 DEF Traced, ServerOK
<1>6. CASE message.kind = "request"
  <2>1. working' = working \cup {message} /\ UNCHANGED <<process, copy>>
    BY <1>2, <1>6 DEF Take
  <2>2. message \in Requests /\ IsRequest(toServer[1]) /\ message = toServer[1]
    BY <1>1, <1>2, <1>6, MessageKinds DEF IsRequest
  <2>3. Worked'
    <3>1. \A r \in working' : r.id \in DOMAIN methods /\ methods[r.id] = r.method
      BY <1>1, <2>1, <2>2 DEF Traced, Worked, Queued
    <3>2. \A r, s \in working' : r.id = s.id => r = s
      BY <1>1, <2>1, <2>2 DEF Traced, Worked
    <3>3. ASSUME NEW r \in working', NEW i \in DOMAIN toServer', IsRequest(toServer'[i])
          PROVE  toServer'[i].id # r.id
      <4>1. CASE r \in working
        BY <1>1, <3>3, <4>1 DEF Traced, Worked
      <4>2. CASE r = message
        BY <1>1, <2>2, <3>3, <4>2 DEF Traced, Queued
      <4> QED BY <2>1, <4>1, <4>2
    <3> QED BY <1>3, <3>1, <3>2, <3>3 DEF Worked
  <2>4. Replied'
    BY <1>1, <1>3, <2>1, <2>2 DEF Traced, Replied
  <2>5. process' = "running" => AllKnown'
    BY <1>1, <1>3, <2>1, <2>2 DEF Traced, AllKnown
  <2> QED BY <1>1, <1>4, <2>1, <2>2, <2>3, <2>4, <2>5 DEF Traced, ServerOK
<1>7. CASE message.kind = "exit"
  <2>1. process' = "ended" /\ working' = {} /\ UNCHANGED copy
    BY <1>2, <1>7 DEF Take
  <2>2. Worked'
    BY <2>1 DEF Worked
  <2>3. Replied'
    BY <1>1, <1>3, <2>1 DEF Traced, Replied
  <2> QED BY <1>1, <1>4, <2>1, <2>2, <2>3 DEF Traced, ServerOK
<1>8. message.kind \in {"change", "request", "exit"}
  BY <1>1, <1>2 DEF Messages, Requests
<1> QED BY <1>5, <1>6, <1>7, <1>8

LEMMA AnswerTraced ==
  ASSUME ArrivingOK, ServerOK, Traced, Answer
  PROVE  ArrivingOK' /\ ServerOK' /\ Traced'
<1>1. PICK r \in working, result \in {{}, {copy}} :
        /\ working' = working \ {r}
        /\ toClient' = Append(toClient, [id |-> r.id, result |-> result])
  BY DEF Answer
<1>2. UNCHANGED <<methods, toServer, split, buffer, process, copy>>
  BY DEF Answer, client
<1>3. PICK a : a = [id |-> r.id, result |-> result]
  OBVIOUS
<1>4. a \in Answers /\ a.id = r.id
  BY <1>3 DEF ServerOK, Requests, Answers
<1>5. ArrivingOK'
  BY <1>1, <1>2, <1>3, <1>4 DEF ArrivingOK
<1>6. /\ Pending \in Seq(Answers) /\ Len(Pending) = Len(buffer) + Len(toClient)
      /\ Len(buffer) \in Nat /\ Len(toClient) \in Nat
  BY PendingTypes
<1>7. Pending' = Append(Pending, a)
  <2>1. buffer \in Seq(Answers) /\ toClient \in Seq(Answers)
    BY DEF ArrivingOK
  <2>2. Append(toClient, a) = toClient \o <<a>> /\ Append(Pending, a) = Pending \o <<a>>
    BY <1>4, <1>6, <2>1, AppendIsConcat
  <2>3. <<a>> \in Seq(Answers)
    BY <1>4
  <2>4. (buffer \o toClient) \o <<a>> = buffer \o (toClient \o <<a>>)
    BY ONLY <2>1, <2>3, ConcatAssociative
  <2> QED BY <1>1, <1>2, <1>3, <2>2, <2>4 DEF Pending
<1>8. /\ DOMAIN Pending = 1 .. Len(Pending) /\ DOMAIN Pending' = 1 .. Len(Pending) + 1
      /\ \A i \in 1 .. Len(Pending) : Pending'[i] = Pending[i]
      /\ Pending'[Len(Pending) + 1] = a /\ Len(Pending) \in Nat
  BY <1>4, <1>6, <1>7
<1>9. \A i \in DOMAIN Pending' :
        (i \in DOMAIN Pending /\ Pending'[i] = Pending[i]) \/ (i = Len(Pending) + 1 /\ Pending'[i] = a)
  BY <1>8
<1>10. /\ \A i \in DOMAIN Pending : i \in DOMAIN Pending' /\ Pending'[i] = Pending[i]
       /\ Len(Pending) + 1 \in DOMAIN Pending'
  BY <1>8
<1>11. Queued'
  BY <1>2 DEF Traced, Queued
<1>12. Worked'
  BY <1>1, <1>2 DEF Traced, Worked
<1>13. Replied'
  <2>1. \A i \in DOMAIN Pending' : Pending'[i].id \in DOMAIN methods
    BY <1>4, <1>9 DEF Traced, Replied, Worked
  <2>2. ASSUME NEW i \in DOMAIN Pending', NEW j \in DOMAIN Pending', Pending'[i].id = Pending'[j].id
        PROVE  i = j
    BY <1>4, <1>9, <2>2 DEF Traced, Replied
  <2>3. ASSUME NEW i \in DOMAIN Pending', NEW s \in working' PROVE s.id # Pending'[i].id
    BY <1>1, <1>4, <1>9 DEF Traced, Replied, Worked
  <2>4. ASSUME NEW i \in DOMAIN Pending', NEW j \in DOMAIN toServer, IsRequest(toServer[j])
        PROVE  toServer[j].id # Pending'[i].id
    BY <1>4, <1>9, <2>4 DEF Traced, Replied, Worked
  <2> QED BY <1>2, <2>1, <2>2, <2>3, <2>4 DEF Replied
<1>14. process' = "running" => AllKnown'
  <2> SUFFICES ASSUME process = "running", NEW m \in DOMAIN methods
               PROVE  \/ \E i \in DOMAIN Pending' : Pending'[i].id = m
                      \/ \E s \in working' : s.id = m
                      \/ \E i \in DOMAIN toServer : IsRequest(toServer[i]) /\ toServer[i].id = m
    BY <1>2 DEF AllKnown
  <2>1. \/ \E i \in DOMAIN Pending : Pending[i].id = m
        \/ \E s \in working : s.id = m
        \/ \E i \in DOMAIN toServer : IsRequest(toServer[i]) /\ toServer[i].id = m
    BY DEF Traced, AllKnown
  <2>2. CASE \E i \in DOMAIN Pending : Pending[i].id = m
    BY <1>10, <2>2
  <2>3. CASE \E s \in working : s.id = m
    <3>1. PICK s \in working : s.id = m
      BY <2>3
    <3>2. CASE s = r
      BY <1>4, <1>8, <1>10, <3>1, <3>2
    <3> QED BY <1>1, <3>1, <3>2
  <2> QED BY <2>1, <2>2, <2>3
<1> QED BY <1>1, <1>2, <1>5, <1>11, <1>12, <1>13, <1>14 DEF Traced, ServerOK

LEMMA CrashTraced ==
  ASSUME Traced, Crash
  PROVE  Traced'
<1>1. toServer' = << >> /\ working' = {} /\ process' = "ended" /\ UNCHANGED <<methods, Pending>>
  BY DEF Crash, client, arriving, Pending
<1>2. DOMAIN toServer' = {}
  BY <1>1
<1> QED BY <1>1, <1>2 DEF Traced, Queued, Worked, Replied

(***************************************************************************)
(* Before the server has answered to initialize nothing else is asked.     *)
(***************************************************************************)

Beginning ==
  /\ ~session => \A i \in DOMAIN methods : methods[i] = "initialize" /\ phase = "initializing"
  /\ phase \in {"starting", "initializing"} => ~opened
  /\ phase = "starting" => ~session

(* The first answer is that to initialize.                                 *)
LEMMA HandleBegins ==
  ASSUME ArrivingOK, Traced, Beginning,
         NEW n \in 1 .. Len(Pending), Handle(SubSeq(Pending, 1, n)), UNCHANGED opened
  PROVE  /\ session' = TRUE \/ session' = session
         /\ ~session => session' = TRUE /\ phase = "initializing" /\ phase' = "running"
         /\ phase' \in {"running", "exit", phase}
<1>1. PICK messages : messages = SubSeq(Pending, 1, n)
  OBVIOUS
<1>2. Pending \in Seq(Answers) /\ n \in Nat
  BY PendingTypes
<1>3. DOMAIN messages = 1 .. n /\ \A j \in 1 .. n : messages[j] = Pending[j]
  BY <1>1, <1>2
<1>4. IF AnswersTo("initialize", messages) # {}
      THEN phase' = "running" /\ session' = TRUE
      ELSE IF AnswersTo("shutdown", messages) # {}
      THEN phase' = "exit" /\ UNCHANGED session
      ELSE UNCHANGED <<phase, session>>
  BY <1>1 DEF Handle
<1>5. ASSUME ~session PROVE AnswersTo("initialize", messages) # {} /\ phase = "initializing"
  <2>1. 1 \in DOMAIN messages /\ 1 \in DOMAIN Pending /\ messages[1] = Pending[1]
    BY <1>2, <1>3
  <2>2. Pending[1].id \in DOMAIN methods
    BY <2>1 DEF Traced, Replied
  <2>3. methods[messages[1].id] = "initialize" /\ phase = "initializing"
    BY <1>5, <2>1, <2>2 DEF Beginning
  <2> QED BY <2>1, <2>3 DEF AnswersTo
<1> QED BY <1>4, <1>5

(***************************************************************************)
(* The text the server has, or will have.                                  *)
(***************************************************************************)

IsChange(message) == message.kind = "change"

Reaches == \/ \E i \in DOMAIN toServer : /\ IsChange(toServer[i]) /\ toServer[i].text = text
                                         /\ \A j \in DOMAIN toServer : i < j => ~IsChange(toServer[j])
           \/ copy = text /\ \A i \in DOMAIN toServer : ~IsChange(toServer[i])
Synced == opened /\ session /\ process = "running" /\ ~timer => Reaches

LEMMA SyncedIsInSync ==
  ASSUME QueueOK, Synced
  PROVE  InSync
<1> SUFFICES ASSUME opened, session, process = "running", ~timer
             PROVE  IF Changes = {} THEN copy = text
                    ELSE \E i \in Last(Changes) : toServer[i].text = text
  BY DEF InSync
<1>1. Reaches
  BY DEF Synced
<1>2. \A i : i \in Changes <=> i \in DOMAIN toServer /\ IsChange(toServer[i])
  BY DEF Changes, IsChange
<1>3. CASE copy = text /\ \A i \in DOMAIN toServer : ~IsChange(toServer[i])
  <2>1. Changes = {}
    BY <1>2, <1>3
  <2> QED BY <1>3, <2>1
<1>4. ASSUME NEW i \in DOMAIN toServer, IsChange(toServer[i]), toServer[i].text = text,
             \A j \in DOMAIN toServer : i < j => ~IsChange(toServer[j])
      PROVE  Changes # {} /\ i \in Last(Changes)
  <2>1. i \in Changes
    BY <1>2, <1>4
  <2>2. DOMAIN toServer \subseteq Int
    BY DEF QueueOK
  <2>3. \A j \in Changes : j <= i
    BY <1>2, <1>4, <2>2
  <2> QED BY <2>1, <2>3 DEF Last
<1> QED BY <1>1, <1>3, <1>4 DEF Reaches

(* A step that writes no change and leaves the text.                       *)
LEMMA ReachesStill ==
  ASSUME QueueOK, QueueOK', Reaches, UNCHANGED <<text, copy>>,
         \A i \in DOMAIN toServer : i \in DOMAIN toServer' /\ toServer'[i] = toServer[i],
         \A i \in DOMAIN toServer' : i \notin DOMAIN toServer => ~IsChange(toServer'[i])
  PROVE  Reaches'
<1>1. CASE copy = text /\ \A i \in DOMAIN toServer : ~IsChange(toServer[i])
  BY <1>1 DEF Reaches
<1>2. ASSUME NEW i \in DOMAIN toServer, IsChange(toServer[i]), toServer[i].text = text,
             \A j \in DOMAIN toServer : i < j => ~IsChange(toServer[j])
      PROVE  Reaches'
  <2>1. i \in DOMAIN toServer' /\ IsChange(toServer'[i]) /\ toServer'[i].text = text'
    BY <1>2
  <2>2. \A j \in DOMAIN toServer' : i < j => ~IsChange(toServer'[j])
    BY <1>2
  <2> QED BY <2>1, <2>2 DEF Reaches
<1> QED BY <1>1, <1>2 DEF Reaches

(* What is asked with the text at its head reaches the server.             *)
LEMMA AskReaches ==
  ASSUME MethodsOK, QueueOK, NEW notes \in Seq(ChangeMessages), NEW ms \in Seq(Methods),
         Ask(notes, ms), process' = "running",
         Len(notes) > 0, notes[Len(notes)].text = text'
  PROVE  Reaches'
<1>1. Len(notes) \in Nat /\ Len(ms) \in Nat /\ Len(toServer) \in Nat
  BY DEF QueueOK
<1>2. /\ toServer' \in Seq(Messages)
      /\ Len(toServer') = Len(toServer) + Len(notes) + Len(ms)
      /\ \A i \in 1 .. Len(notes) : toServer'[Len(toServer) + i] = notes[i]
  BY AskWrites
<1>3. /\ Len(toServer) \in Nat
      /\ \A i \in 1 .. Len(toServer') :
           i > Len(toServer) /\ IsRequest(toServer'[i]) =>
             \E k \in 1 .. Len(ms) : i = Len(toServer) + Len(notes) + k
  BY AskPlaces
<1>4. \A i \in 1 .. Len(ms) :
        toServer'[Len(toServer) + Len(notes) + i] = Request(nextId + i - 1, ms[i])
  BY AskWrites
<1>5. PICK last \in 1 .. Len(toServer') : last = Len(toServer) + Len(notes)
  BY <1>1, <1>2
<1>6. toServer'[last] = notes[Len(notes)] /\ IsChange(toServer'[last]) /\ toServer'[last].text = text'
  <2>1. PICK l \in 1 .. Len(notes) : l = Len(notes)
    BY <1>1
  <2>2. toServer'[last] = notes[l] /\ notes[l] \in ChangeMessages
    BY <1>2, <1>5, <2>1
  <2> QED BY <2>1, <2>2 DEF IsChange, ChangeMessages
<1>7. ASSUME NEW j \in 1 .. Len(toServer'), last < j PROVE ~IsChange(toServer'[j])
  <2>1. PICK k \in 1 .. Len(ms) : j = Len(toServer) + Len(notes) + k
    <3>1. /\ j - (Len(toServer) + Len(notes)) \in 1 .. Len(ms)
          /\ j = Len(toServer) + Len(notes) + (j - (Len(toServer) + Len(notes)))
      BY <1>1, <1>2, <1>5, <1>7
    <3> QED BY <3>1
  <2>2. toServer'[j] = Request(nextId + k - 1, ms[k])
    BY <1>4, <2>1
  <2> QED BY <2>2 DEF Request, IsChange
<1>8. DOMAIN toServer' = 1 .. Len(toServer')
  BY <1>2
<1> QED BY <1>5, <1>6, <1>7, <1>8 DEF Reaches

(* Asking without a change.                                                *)
LEMMA AskStill ==
  ASSUME MethodsOK, QueueOK, QueueOK', NEW ms \in Seq(Methods), Ask(<< >>, ms),
         UNCHANGED <<text, copy>>, Reaches, process' = "running"
  PROVE  Reaches'
<1>1. << >> \in Seq(ChangeMessages) /\ Len(<< >>) = 0
  OBVIOUS
<1>2. PICK notes \in Seq(ChangeMessages) : notes = << >> /\ Len(notes) = 0
  BY <1>1
<1>3. Ask(notes, ms)
  BY <1>2
<1>4. /\ Len(toServer') = Len(toServer) + Len(notes) + Len(ms)
      /\ \A i \in 1 .. Len(toServer) : toServer'[i] = toServer[i]
      /\ \A i \in 1 .. Len(ms) :
           toServer'[Len(toServer) + Len(notes) + i] = Request(nextId + i - 1, ms[i])
  BY <1>3, AskWrites
<1>5. /\ DOMAIN toServer = 1 .. Len(toServer) /\ DOMAIN toServer' = 1 .. Len(toServer')
      /\ Len(toServer) \in Nat /\ Len(ms) \in Nat /\ Len(toServer') = Len(toServer) + Len(ms)
  BY <1>2, <1>4 DEF QueueOK
<1>6. \A i \in DOMAIN toServer : i \in DOMAIN toServer' /\ toServer'[i] = toServer[i]
  BY <1>4, <1>5
<1>7. ASSUME NEW i \in DOMAIN toServer', i \notin DOMAIN toServer PROVE ~IsChange(toServer'[i])
  <2>1. PICK k \in 1 .. Len(ms) : i = Len(toServer) + Len(notes) + k
    <3>1. i \in Nat /\ i > Len(toServer) /\ i <= Len(toServer) + Len(ms)
      BY <1>5, <1>7
    <3>2. PICK k \in 1 .. Len(ms) : i = Len(toServer) + k
      <4>1. i - Len(toServer) \in 1 .. Len(ms) /\ i = Len(toServer) + (i - Len(toServer))
        BY <1>5, <3>1
      <4> QED BY <4>1
    <3>3. Len(toServer) + Len(notes) + k = Len(toServer) + k
      BY <1>2, <1>5
    <3> QED BY <3>2, <3>3
  <2>2. toServer'[i] = Request(nextId + k - 1, ms[k])
    BY <1>4, <2>1
  <2> QED BY <2>2 DEF Request, IsChange
<1> QED BY <1>6, <1>7, ReachesStill

LEMMA TakeReaches ==
  ASSUME QueueOK, QueueOK', Reaches, Take
  PROVE  process' = "running" => Reaches'
<1> SUFFICES ASSUME process' = "running" PROVE Reaches'
  OBVIOUS
<1>1. /\ Head(toServer) \in Messages /\ Head(toServer) = toServer[1] /\ 1 \in DOMAIN toServer
      /\ \A i \in DOMAIN toServer' : /\ i + 1 \in DOMAIN toServer /\ i + 1 # 1 /\ i \in Nat
                                     /\ toServer'[i] = toServer[i + 1]
      /\ \A i \in DOMAIN toServer : i = 1 \/ \E j \in DOMAIN toServer' : i = j + 1
  BY QueueTail DEF Take
<1>2. DOMAIN toServer \subseteq Nat \ {0} /\ DOMAIN toServer' \subseteq Nat
  BY DEF QueueOK
<1>3. /\ text' = text
      /\ IsChange(toServer[1]) => copy' = toServer[1].text
      /\ ~IsChange(toServer[1]) => copy' = copy
  BY <1>1 DEF Take, IsChange, document, Messages, Requests
<1>4. CASE copy = text /\ \A i \in DOMAIN toServer : ~IsChange(toServer[i])
  BY <1>1, <1>3, <1>4 DEF Reaches
<1>5. ASSUME NEW i \in DOMAIN toServer, IsChange(toServer[i]), toServer[i].text = text,
             \A j \in DOMAIN toServer : i < j => ~IsChange(toServer[j])
      PROVE  Reaches'
  <2>1. CASE i = 1
    <3>1. \A j \in DOMAIN toServer' : ~IsChange(toServer'[j])
      <4> TAKE j \in DOMAIN toServer'
      <4>1. i < j + 1
        BY <1>1, <1>2, <2>1
      <4> QED BY <1>1, <1>5, <4>1
    <3> QED BY <1>3, <1>5, <2>1, <3>1 DEF Reaches
  <2>2. CASE i # 1
    <3>1. PICK k \in DOMAIN toServer' : i = k + 1
      BY <1>1, <2>2
    <3>2. IsChange(toServer'[k]) /\ toServer'[k].text = text'
      BY <1>1, <1>3, <1>5, <3>1
    <3>3. ASSUME NEW j \in DOMAIN toServer', k < j PROVE ~IsChange(toServer'[j])
      <4>1. i < j + 1
        BY <1>2, <3>1, <3>3
      <4> QED BY <1>1, <1>5, <4>1
    <3> QED BY <3>2, <3>3 DEF Reaches
  <2> QED BY <2>1, <2>2
<1> QED BY <1>4, <1>5 DEF Reaches

(***************************************************************************)
(* The invariant, through every action.                                    *)
(***************************************************************************)

Inv == /\ MainOK /\ MethodsOK /\ QueueOK /\ ArrivingOK /\ ServerOK
       /\ Traced /\ Beginning /\ Synced

LEMMA InvInit == Init => Inv
<1> SUFFICES ASSUME Init PROVE Inv
  OBVIOUS
<1>1. /\ DOMAIN toServer = {} /\ toServer \in Seq(Messages)
      /\ toClient \in Seq(Answers) /\ buffer \in Seq(Answers)
  BY DEF Init
<1>2. methods = << >> /\ DOMAIN methods = {}
  BY DEF Init
<1>3. MainOK /\ MethodsOK /\ QueueOK /\ ArrivingOK /\ ServerOK
  <2>1. {} \in Texts /\ 0 \in 0 .. MaxEdits /\ 0 \in 0 .. MaxFormats
    BY LanguageAssumption DEF Texts
  <2>2. MainOK
    BY <2>1 DEF Init, MainOK
  <2>3. MethodsOK
    BY <1>2 DEF Init, MethodsOK
  <2>4. ArrivingOK /\ QueueOK
    BY <1>1 DEF Init, ArrivingOK, QueueOK
  <2>5. ServerOK
    BY <2>1 DEF Init, ServerOK
  <2> QED BY <2>2, <2>3, <2>4, <2>5
<1>4. Len(Pending) = 0 /\ Pending \in Seq(Answers)
  BY <1>1, <1>3, PendingTypes DEF Init
<1>5. DOMAIN Pending = {}
  BY <1>4
<1>6. Queued /\ Worked /\ Replied
  BY <1>1, <1>5 DEF Init, Queued, Worked, Replied
<1>7. Beginning /\ Synced /\ process # "running"
  BY <1>2 DEF Init, Beginning, Synced
<1> QED BY <1>3, <1>6, <1>7 DEF Inv, Traced

(* An action that asks, or not, with a change in front, or none.           *)
LEMMA ManagerSafe ==
  ASSUME Inv, NEW notes \in Seq(ChangeMessages), NEW ms \in Seq(Methods),
         AskManager(notes, ms), UNCHANGED <<arriving, server, session>>
  PROVE  /\ MethodsOK' /\ QueueOK' /\ ArrivingOK' /\ ServerOK' /\ Traced'
         /\ ~session => methods' = methods
         /\ session /\ process = "running" /\ Len(notes) > 0 /\ notes[Len(notes)].text = text'
              => Reaches'
         /\ session /\ process = "running" /\ notes = << >> /\ text' = text /\ Reaches
              => Reaches'
<1>1. ArrivingOK' /\ ServerOK'
  BY DEF Inv, ArrivingOK, ServerOK, arriving, server
<1>2. UNCHANGED <<toClient, buffer, working, process, copy>> /\ Pending' = Pending
  BY DEF arriving, server, Pending
<1>3. CASE session
  <2>1. Ask(notes, ms)
    BY <1>3 DEF AskManager
  <2>2. MethodsOK' /\ QueueOK' /\ Traced'
    BY <1>2, <2>1, AskTraced DEF Inv, Traced
  <2>3. session /\ process = "running" /\ Len(notes) > 0 /\ notes[Len(notes)].text = text' => Reaches'
    BY <1>2, <2>1, AskReaches DEF Inv
  <2>4. session /\ process = "running" /\ notes = << >> /\ text' = text /\ Reaches => Reaches'
    BY <1>2, <2>1, <2>2, AskStill DEF Inv
  <2> QED BY <1>1, <1>3, <2>2, <2>3, <2>4
<1>4. CASE ~session
  <2>1. UNCHANGED <<nextId, methods, toServer>>
    BY <1>4 DEF AskManager
  <2>2. MethodsOK' /\ QueueOK'
    BY <2>1 DEF Inv, MethodsOK, QueueOK
  <2>3. Traced'
    BY <1>2, <2>1 DEF Inv, Traced, Queued, Worked, Replied, AllKnown
  <2> QED BY <1>1, <1>4, <2>1, <2>2, <2>3
<1> QED BY <1>3, <1>4

LEMMA ChangeTyped ==
  ASSUME MainOK'
  PROVE  /\ Change \in Seq(ChangeMessages) /\ Len(Change) = 1 /\ Change[1].text = text'
         /\ Change \o Change \in Seq(ChangeMessages) /\ Len(Change \o Change) = 2
         /\ (Change \o Change)[2].text = text'
<1>1. PICK m : m = [kind |-> "change", text |-> text']
  OBVIOUS
<1>2. m \in ChangeMessages /\ m.text = text'
  BY <1>1 DEF MainOK, ChangeMessages
<1>3. Change = <<m>>
  BY <1>1 DEF Change
<1>4. <<m>> \in Seq(ChangeMessages) /\ Len(<<m>>) = 1 /\ <<m>>[1] = m
  BY <1>2
<1>5. /\ <<m>> \o <<m>> \in Seq(ChangeMessages) /\ Len(<<m>> \o <<m>>) = 2
      /\ (<<m>> \o <<m>>)[2] = m
  BY <1>2, <1>4
<1> QED BY <1>2, <1>3, <1>4, <1>5

LEMMA StartSafe == ASSUME Inv, Start PROVE Inv'
<1>0. /\ phase = "starting" /\ ~session /\ ~opened
      /\ UNCHANGED <<session, opened, document, arriving, copy, working>>
  BY DEF Inv, Beginning, Start
<1>1. DOMAIN methods = {}
  BY <1>0 DEF Inv, Beginning
<1>2. /\ UNCHANGED <<typed, formats, text, timer, toClient, buffer, split>> /\ Pending' = Pending
  BY <1>0 DEF document, arriving, Pending
<1>3. ArrivingOK'
  BY <1>2 DEF Inv, ArrivingOK
<1>4. Synced'
  BY <1>0 DEF Synced
<1>5. CASE process' = "running" /\ phase' = "initializing" /\ Ask(<< >>, <<"initialize">>)
  <2>0. <<"initialize">> \in Seq(Methods) /\ << >> \in Seq(ChangeMessages)
    BY DEF Methods
  <2>1. PICK ms \in Seq(Methods) : ms = <<"initialize">> /\ Len(ms) = 1 /\ ms[1] = "initialize"
    BY <2>0
  <2>2. PICK notes \in Seq(ChangeMessages) : notes = << >>
    BY <2>0
  <2>3. Ask(notes, ms)
    BY <1>5, <2>1, <2>2
  <2>4. AllKnown
    BY <1>1 DEF AllKnown
  <2>5. MethodsOK' /\ QueueOK' /\ Traced'
    BY <1>0, <1>2, <2>3, <2>4, AskTraced DEF Inv
  <2>6. \A i \in DOMAIN methods' : \E k \in 1 .. Len(ms) : i = nextId + k - 1 /\ methods'[i] = ms[k]
    BY <1>1, <2>3, AskMethods DEF Inv
  <2>7. \A i \in DOMAIN methods' : methods'[i] = "initialize"
    BY <2>1, <2>6
  <2>8. MainOK' /\ ServerOK' /\ Beginning'
    BY <1>0, <1>2, <1>5, <2>7 DEF Inv, MainOK, ServerOK, Beginning
  <2> QED BY <1>3, <1>4, <2>5, <2>8 DEF Inv
<1>6. CASE UNCHANGED <<process, nextId, methods, toServer>> /\ phase' = "running"
  <2>1. MainOK' /\ MethodsOK' /\ QueueOK' /\ ServerOK' /\ Beginning'
    BY <1>0, <1>1, <1>2, <1>6 DEF Inv, MainOK, MethodsOK, QueueOK, ServerOK, Beginning
  <2>2. Traced'
    BY <1>0, <1>2, <1>6 DEF Inv, Traced, Queued, Worked, Replied, AllKnown
  <2> QED BY <1>3, <1>4, <2>1, <2>2 DEF Inv
<1> QED BY <1>5, <1>6 DEF Start

LEMMA OpenSafe == ASSUME Inv, Open PROVE Inv'
<1>1. /\ phase = "running" /\ UNCHANGED <<phase, session, arriving, server>> /\ opened' = TRUE
      /\ AskManager(Change \o Change, OnChange)
      /\ UNCHANGED <<typed, formats, text, timer>>
  BY DEF Open, document
<1>2. MainOK'
  BY <1>1 DEF Inv, MainOK
<1>3. PICK notes \in Seq(ChangeMessages) :
        notes = Change \o Change /\ Len(notes) = 2 /\ notes[2].text = text'
  BY <1>2, ChangeTyped
<1>4. PICK ms \in Seq(Methods) : ms = OnChange
  BY LanguageAssumption
<1>5. /\ MethodsOK' /\ QueueOK' /\ ArrivingOK' /\ ServerOK' /\ Traced'
      /\ ~session => methods' = methods
      /\ session /\ process = "running" /\ Len(notes) > 0 /\ notes[Len(notes)].text = text'
           => Reaches'
  BY <1>1, <1>3, <1>4, ManagerSafe
<1>6. Beginning'
  BY <1>1, <1>5 DEF Inv, Beginning
<1>7. Synced'
  BY <1>1, <1>3, <1>5 DEF Synced, server
<1> QED BY <1>2, <1>5, <1>6, <1>7 DEF Inv

LEMMA EditSafe ==
  ASSUME Inv, NEW sent \in BOOLEAN, NEW ms \in Seq(Methods), Edit(sent, ms)
  PROVE  Inv'
<1>1. /\ phase = "running" /\ UNCHANGED <<phase, session, opened, formats, arriving, server>>
      /\ typed < MaxEdits /\ typed' = typed + 1 /\ text' = text \cup {typed'} /\ timer' = TRUE
      /\ IF sent THEN AskManager(Change, ms) ELSE UNCHANGED <<nextId, methods, toServer>>
  BY DEF Edit
<1>2. MainOK'
  <2>1. typed' \in 0 .. MaxEdits /\ typed' \in 1 .. MaxEdits
    BY <1>1, LanguageAssumption DEF Inv, MainOK
  <2>2. text' \in Texts
    BY <1>1, <2>1 DEF Inv, MainOK, Texts
  <2> QED BY <1>1, <2>1, <2>2 DEF Inv, MainOK
<1>3. PICK notes \in Seq(ChangeMessages) : notes = Change
  BY <1>2, ChangeTyped
<1>4. CASE sent
  <2>1. /\ MethodsOK' /\ QueueOK' /\ ArrivingOK' /\ ServerOK' /\ Traced'
        /\ ~session => methods' = methods
    BY <1>1, <1>3, <1>4, ManagerSafe
  <2>2. Beginning' /\ Synced'
    BY <1>1, <2>1 DEF Inv, Beginning, Synced
  <2> QED BY <1>2, <2>1, <2>2 DEF Inv
<1>5. CASE ~sent
  <2>1. MethodsOK' /\ QueueOK' /\ ArrivingOK' /\ ServerOK'
    BY <1>1, <1>5 DEF Inv, MethodsOK, QueueOK, ArrivingOK, ServerOK, arriving, server
  <2>2. Traced'
    BY <1>1, <1>5 DEF Inv, Traced, Queued, Worked, Replied, AllKnown, Pending, arriving, server
  <2>3. Beginning' /\ Synced'
    BY <1>1, <1>5 DEF Inv, Beginning, Synced
  <2> QED BY <1>2, <2>1, <2>2, <2>3 DEF Inv
<1> QED BY <1>4, <1>5

LEMMA ContentChangeSafe == ASSUME Inv, ContentChange PROVE Inv'
<1>1. /\ UNCHANGED <<phase, session, opened, typed, formats, text, arriving, server>>
      /\ timer' = FALSE
      /\ AskManager(Change, OnChange)
  BY DEF ContentChange
<1>2. MainOK'
  BY <1>1 DEF Inv, MainOK
<1>3. PICK notes \in Seq(ChangeMessages) :
        notes = Change /\ Len(notes) = 1 /\ notes[1].text = text'
  BY <1>2, ChangeTyped
<1>4. PICK ms \in Seq(Methods) : ms = OnChange
  BY LanguageAssumption
<1>5. /\ MethodsOK' /\ QueueOK' /\ ArrivingOK' /\ ServerOK' /\ Traced'
      /\ ~session => methods' = methods
      /\ session /\ process = "running" /\ Len(notes) > 0 /\ notes[Len(notes)].text = text'
           => Reaches'
  BY <1>1, <1>3, <1>4, ManagerSafe
<1>6. Beginning'
  BY <1>1, <1>5 DEF Inv, Beginning
<1>7. Synced'
  BY <1>1, <1>3, <1>5 DEF Synced, server
<1> QED BY <1>2, <1>5, <1>6, <1>7 DEF Inv

LEMMA FormatSafe == ASSUME Inv, Format PROVE Inv'
<1>1. /\ phase = "running" /\ UNCHANGED <<phase, session, opened, typed, text, timer, arriving, server>>
      /\ formats < MaxFormats /\ formats' = formats + 1
      /\ AskManager(<< >>, <<"formatting">>)
  BY DEF Format
<1>2. MainOK'
  <2>1. formats' \in 0 .. MaxFormats
    BY <1>1, LanguageAssumption DEF Inv, MainOK
  <2> QED BY <1>1, <2>1 DEF Inv, MainOK
<1>0. <<"formatting">> \in Seq(Methods) /\ << >> \in Seq(ChangeMessages)
  BY DEF Methods
<1>3. PICK notes \in Seq(ChangeMessages) : notes = << >>
  BY <1>0
<1>4. PICK ms \in Seq(Methods) : ms = <<"formatting">>
  BY <1>0
<1>5. /\ MethodsOK' /\ QueueOK' /\ ArrivingOK' /\ ServerOK' /\ Traced'
      /\ ~session => methods' = methods
      /\ session /\ process = "running" /\ notes = << >> /\ text' = text /\ Reaches => Reaches'
  BY <1>1, <1>3, <1>4, ManagerSafe
<1>6. Beginning'
  BY <1>1, <1>5 DEF Inv, Beginning
<1>7. Synced'
  BY <1>1, <1>3, <1>5 DEF Inv, Synced, server
<1> QED BY <1>2, <1>5, <1>6, <1>7 DEF Inv

LEMMA ShutdownSafe == ASSUME Inv, Shutdown PROVE Inv'
<1>1. phase = "running" /\ UNCHANGED <<session, opened, document, arriving, server>>
  BY DEF Shutdown
<1>2. UNCHANGED <<typed, formats, text, timer>>
  BY <1>1 DEF document
<1>3. CASE session /\ process = "running" /\ phase' = "shutdown" /\ Ask(<< >>, <<"shutdown">>)
  <2>0. <<"shutdown">> \in Seq(Methods) /\ << >> \in Seq(ChangeMessages)
    BY DEF Methods
  <2>1. PICK notes \in Seq(ChangeMessages) : notes = << >>
    BY <2>0
  <2>2. PICK ms \in Seq(Methods) : ms = <<"shutdown">>
    BY <2>0
  <2>3. AskManager(notes, ms)
    BY <1>3, <2>1, <2>2 DEF AskManager
  <2>4. /\ MethodsOK' /\ QueueOK' /\ ArrivingOK' /\ ServerOK' /\ Traced'
        /\ session /\ process = "running" /\ notes = << >> /\ text' = text /\ Reaches => Reaches'
    BY <1>1, <2>3, ManagerSafe
  <2>5. MainOK' /\ Beginning'
    BY <1>1, <1>2, <1>3 DEF Inv, MainOK, Beginning
  <2>6. Synced'
    BY <1>1, <1>2, <2>1, <2>4 DEF Inv, Synced, server
  <2> QED BY <2>4, <2>5, <2>6 DEF Inv
<1>4. CASE phase' = "closed" /\ UNCHANGED <<nextId, methods, toServer>>
  <2>1. MainOK' /\ MethodsOK' /\ QueueOK' /\ ArrivingOK' /\ ServerOK'
    BY <1>1, <1>2, <1>4
       DEF Inv, MainOK, MethodsOK, QueueOK, ArrivingOK, ServerOK, arriving, server
  <2>2. Traced'
    BY <1>1, <1>4 DEF Inv, Traced, Queued, Worked, Replied, AllKnown, Pending, arriving, server
  <2>3. Beginning'
    BY <1>1, <1>4 DEF Inv, Beginning
  <2>4. Synced'
    BY <1>1, <1>2, <1>4 DEF Inv, Synced, Reaches, server
  <2> QED BY <2>1, <2>2, <2>3, <2>4 DEF Inv
<1> QED BY <1>3, <1>4 DEF Shutdown

LEMMA FinishedSafe == ASSUME Inv, Finished PROVE Inv'
<1>1. /\ phase = "exit" /\ process # "running" /\ phase' = "closed"
      /\ UNCHANGED <<session, opened, nextId, methods, toServer, document, arriving, server>>
  BY DEF Finished
<1>2. MainOK' /\ MethodsOK' /\ QueueOK' /\ ArrivingOK' /\ ServerOK'
  BY <1>1 DEF Inv, MainOK, MethodsOK, QueueOK, ArrivingOK, ServerOK, arriving, server, document
<1>3. Traced'
  BY <1>1 DEF Inv, Traced, Queued, Worked, Replied, AllKnown, Pending, arriving, server
<1>4. Beginning' /\ Synced'
  BY <1>1 DEF Inv, Beginning, Synced, server
<1> QED BY <1>2, <1>3, <1>4 DEF Inv

(* The text is set only together with the timer.                           *)
LEMMA SetTextTyped ==
  ASSUME MainOK, NEW messages, \A j \in DOMAIN messages : messages[j] \in Answers,
         SetText(messages)
  PROVE  /\ text' \in Texts /\ timer' \in BOOLEAN
         /\ UNCHANGED <<text, timer>> \/ timer' = TRUE
<1>1. CASE UNCHANGED <<text, timer>>
  BY <1>1 DEF MainOK
<1>2. ASSUME timer' = TRUE, NEW j \in Last(Formatted(messages)), text' \in messages[j].result
      PROVE  text' \in Texts
  <2>1. j \in DOMAIN messages
    BY DEF Last, Formatted, AnswersTo
  <2>2. messages[j].result \in {{}} \cup {{t} : t \in Texts}
    BY <2>1 DEF Answers
  <2> QED BY <1>2, <2>2
<1> QED BY <1>1, <1>2 DEF SetText

LEMMA ParserSafe == ASSUME Inv, Parser PROVE Inv'
<1>1. PICK k \in 0 .. Len(toClient) : Chunk(k)
  BY DEF Parser
<1>2. /\ ArrivingOK'
      /\ \/ Pending' = Pending /\ UNCHANGED <<phase, session, methods, text, timer, toServer>>
         \/ \E n \in 1 .. Len(Pending) :
              /\ Handle(SubSeq(Pending, 1, n))
              /\ Pending' = SubSeq(Pending, n + 1, Len(Pending))
  BY <1>1, ChunkTakes DEF Inv
<1>3. UNCHANGED <<opened, nextId, typed, formats, process, copy, working>>
  BY <1>1 DEF Chunk, server
<1>4. CASE Pending' = Pending /\ UNCHANGED <<phase, session, methods, text, timer, toServer>>
  <2>1. MainOK' /\ MethodsOK' /\ QueueOK' /\ ServerOK' /\ Beginning'
    BY <1>3, <1>4 DEF Inv, MainOK, MethodsOK, QueueOK, ServerOK, Beginning
  <2>2. Traced'
    BY <1>3, <1>4 DEF Inv, Traced, Queued, Worked, Replied, AllKnown
  <2>3. Synced'
    BY <1>3, <1>4 DEF Inv, Synced, Reaches
  <2> QED BY <1>2, <2>1, <2>2, <2>3 DEF Inv
<1>5. ASSUME NEW n \in 1 .. Len(Pending), Handle(SubSeq(Pending, 1, n)),
             Pending' = SubSeq(Pending, n + 1, Len(Pending))
      PROVE  Inv'
  <2>1. MethodsOK' /\ QueueOK' /\ Traced'
    BY <1>3, <1>5, HandleTraced DEF Inv
  <2>2. /\ session' = TRUE \/ session' = session
        /\ ~session => session' = TRUE /\ phase = "initializing" /\ phase' = "running"
        /\ phase' \in {"running", "exit", phase}
    BY <1>3, <1>5, HandleBegins DEF Inv
  <2>3. PICK messages : messages = SubSeq(Pending, 1, n)
    OBVIOUS
  <2>4. \A j \in DOMAIN messages : messages[j] \in Answers
    <3>1. Pending \in Seq(Answers)
      BY PendingTypes DEF Inv
    <3>2. messages \in Seq(Answers)
      BY <2>3, <3>1
    <3> QED BY <3>2
  <2>5. /\ text' \in Texts /\ timer' \in BOOLEAN
        /\ UNCHANGED <<text, timer>> \/ timer' = TRUE
    BY <1>5, <2>3, <2>4, SetTextTyped DEF Inv, Handle
  <2>6. MainOK' /\ ServerOK'
    BY <1>3, <2>2, <2>5 DEF Inv, MainOK, ServerOK
  <2>7. Beginning'
    BY <1>3, <2>2 DEF Inv, Beginning
  <2>8. Synced'
    <3>1. /\ \A i \in DOMAIN toServer : i \in DOMAIN toServer' /\ toServer'[i] = toServer[i]
          /\ \A i \in DOMAIN toServer' : i \notin DOMAIN toServer => ~IsChange(toServer'[i])
      BY <1>3, <1>5, HandleWrites DEF Inv, IsChange
    <3> SUFFICES ASSUME opened, session', process = "running", ~timer' PROVE Reaches'
      BY <1>3 DEF Synced
    <3>2. session
      BY <2>2 DEF Inv, Beginning
    <3>3. UNCHANGED <<text, timer>>
      BY <2>5
    <3>4. Reaches
      BY <3>2, <3>3 DEF Inv, Synced
    <3> QED BY <1>3, <2>1, <3>1, <3>3, <3>4, ReachesStill DEF Inv
  <2> QED BY <1>2, <2>1, <2>6, <2>7, <2>8 DEF Inv
<1> QED BY <1>2, <1>4, <1>5

LEMMA TakeSafe == ASSUME Inv, Take PROVE Inv'
<1>1. UNCHANGED <<client, document, arriving>>
  BY DEF Take
<1>2. QueueOK' /\ ServerOK' /\ Traced'
  BY TakeTraced DEF Inv
<1>3. MainOK' /\ MethodsOK' /\ ArrivingOK' /\ Beginning'
  BY <1>1 DEF Inv, MainOK, MethodsOK, ArrivingOK, Beginning, client, document, arriving
<1>4. process' = "running" => process = "running"
  BY DEF Take
<1>5. Synced'
  BY <1>1, <1>2, <1>4, TakeReaches DEF Inv, Synced, client, document
<1> QED BY <1>2, <1>3, <1>5 DEF Inv

LEMMA AnswerSafe == ASSUME Inv, Answer PROVE Inv'
<1>1. UNCHANGED <<client, document, toServer, process, copy>>
  BY DEF Answer
<1>2. ArrivingOK' /\ ServerOK' /\ Traced'
  BY AnswerTraced DEF Inv
<1>3. MainOK' /\ MethodsOK' /\ QueueOK' /\ Beginning' /\ Synced'
  BY <1>1 DEF Inv, MainOK, MethodsOK, QueueOK, Beginning, Synced, Reaches, client, document
<1> QED BY <1>2, <1>3 DEF Inv

LEMMA CrashSafe == ASSUME Inv, Crash PROVE Inv'
<1>1. /\ UNCHANGED <<client, document, arriving, copy>>
      /\ process' = "ended" /\ toServer' = << >> /\ working' = {}
  BY DEF Crash
<1>2. MainOK' /\ MethodsOK' /\ ArrivingOK' /\ QueueOK' /\ ServerOK' /\ Beginning' /\ Synced'
  BY <1>1 DEF Inv, MainOK, MethodsOK, ArrivingOK, QueueOK, ServerOK, Beginning, Synced,
              client, document, arriving
<1> QED BY <1>2, CrashTraced DEF Inv

LEMMA InvStep == Inv /\ [Next]_vars => Inv'
<1> SUFFICES ASSUME Inv, [Next]_vars PROVE Inv'
  OBVIOUS
<1>1. CASE Type
  <2>1. TRUE \in BOOLEAN /\ OnChar \in Seq(Methods) /\ Edit(TRUE, OnChar)
    BY <1>1, LanguageAssumption DEF Type
  <2> QED BY <2>1, EditSafe
<1>2. CASE Paste
  <2>1. << >> \in Seq(Methods)
    OBVIOUS
  <2>2. PICK ms \in Seq(Methods) : ms = << >>
    BY <2>1
  <2>3. Edit(FALSE, ms)
    BY <1>2, <2>2 DEF Paste
  <2> QED BY <2>3, EditSafe
<1>3. CASE UNCHANGED vars
  <2> USE <1>3 DEF vars, client, document, arriving, server
  <2>1. MainOK' /\ MethodsOK' /\ QueueOK' /\ ArrivingOK' /\ ServerOK' /\ Beginning'
    BY DEF Inv, MainOK, MethodsOK, QueueOK, ArrivingOK, ServerOK, Beginning
  <2>2. Traced'
    BY DEF Inv, Traced, Queued, Worked, Replied, AllKnown, Pending
  <2>3. Synced'
    BY DEF Inv, Synced, Reaches
  <2> QED BY <2>1, <2>2, <2>3 DEF Inv
<1> QED BY <1>1, <1>2, <1>3, StartSafe, OpenSafe, ContentChangeSafe, FormatSafe, ShutdownSafe,
           FinishedSafe, ParserSafe, TakeSafe, AnswerSafe, CrashSafe DEF Next, User, Server

LEMMA InvAlways == Spec => []Inv
<1> QED BY InvInit, InvStep, PTL DEF Spec

(* Every variable has its type, whatever is asked for and however often    *)
(* the server dies, is late or has nothing to say.                         *)
THEOREM LanguageTypeOK == Spec => []TypeOK
<1>1. Inv => TypeOK
  BY TypesInParts DEF Inv
<1> QED BY <1>1, InvAlways, PTL

(* m_methods has the method of every request whose answer is yet to be     *)
(* handled (jsonRequest, parser): ids are never given twice, and a chunk   *)
(* that ends in a message loses none.                                      *)
THEOREM LanguageAnswersMatch == Spec => []AnswersMatch
<1>1. Inv => AnswersMatch
  BY TracedAnswersMatch DEF Inv
<1> QED BY <1>1, InvAlways, PTL

(* The server has the text of the document, or will have it when it has    *)
(* read what it was sent, unless the timer is about to send it             *)
(* (contentChange, charAdd, formattingResponse).                           *)
THEOREM LanguageInSync == Spec => []InSync
<1>1. Inv => InSync
  BY SyncedIsInSync DEF Inv
<1> QED BY <1>1, InvAlways, PTL

(***************************************************************************)
(* McpClient: the parts of its state.                                      *)
(***************************************************************************)

ServersOK == DOMAIN servers \subseteq Urls /\ servers \in [DOMAIN servers -> Servers]
ToolsOK == tools \in [DOMAIN tools -> Urls] /\ offered \in [DOMAIN offered -> Urls]
AskedOK == \A r \in DOMAIN asked : Possible(r)
AnswersOK == /\ answers \in Seq([request : HttpRequests, result : Results])
             /\ \A n \in DOMAIN answers : Possible(answers[n].request)
CountsOK == changes \in 0 .. MaxChanges /\ failures \in 0 .. MaxFailures

(* Every tool offered is known, and of an enabled server. *)
OfferedFound == \A t \in DOMAIN offered : t \in DOMAIN tools /\ Enabled(tools[t])

(* Each conjunct needs the others: a request is made from the record of    *)
(* its server, and what is listed is for a server that is there.           *)
McpInv == ServersOK /\ ToolsOK /\ AskedOK /\ ToolsOfEnabled /\ OfferedFound

LEMMA McpTypesInParts == McpTypeOK <=> ServersOK /\ ToolsOK /\ AskedOK /\ AnswersOK /\ CountsOK
  BY DEF McpTypeOK, ServersOK, ToolsOK, AskedOK, AnswersOK, CountsOK

(***************************************************************************)
(* Requests.                                                               *)
(***************************************************************************)

McpMethods == {"discover", "initialize", "notify", "list"}

LEMMA RequestPossible ==
  ASSUME NEW u \in Urls, NEW method \in McpMethods, NEW page \in Nat,
         page \in 1 .. Len(Pages[u]),
         servers'[u] \in Servers
  PROVE  Possible(HttpRequest(u, method, page))
<1>1. Header(servers'[u], method) \in {"stateless", "session", "none"}
  BY DEF Header, Servers
<1> QED BY <1>1 DEF HttpRequest, Possible, HttpRequests, McpMethods

LEMMA FirstPage ==
  ASSUME NEW u \in Urls
  PROVE  1 \in Nat /\ 1 \in 1 .. Len(Pages[u])
  BY McpAssumption

LEMMA AddedPossible ==
  ASSUME AskedOK, NEW r, Possible(r), asked' = BagAdd(asked, r)
  PROVE  AskedOK'
<1>1. DOMAIN asked' \subseteq DOMAIN asked \cup {r}
  BY DEF BagAdd
<1> QED BY <1>1 DEF AskedOK

LEMMA AskedAnew ==
  ASSUME AskedOK, NEW u \in Urls, NEW method \in McpMethods, ServersOK', u \in DOMAIN servers',
         asked' = BagAdd(asked, HttpRequest(u, method, 1))
  PROVE  AskedOK'
<1>1. servers'[u] \in Servers
  BY DEF ServersOK
<1>2. Possible(HttpRequest(u, method, 1))
  BY <1>1, FirstPage, RequestPossible
<1> QED BY <1>2, AddedPossible

(***************************************************************************)
(* The steps that the actions are made of.                                 *)
(***************************************************************************)

(* A change that keeps the servers there are, and which are enabled. *)
SameEnabled == /\ DOMAIN servers' = DOMAIN servers
               /\ \A u \in DOMAIN servers : servers'[u].enabled = servers[u].enabled

LEMMA SameToolsSafe ==
  ASSUME McpInv, \A u \in DOMAIN servers : Enabled(u) => Enabled(u)', UNCHANGED <<tools, offered>>
  PROVE  ToolsOK' /\ ToolsOfEnabled' /\ OfferedFound'
  BY DEF McpInv, ToolsOK, ToolsOfEnabled, OfferedFound, Enabled

LEMMA WithdrawSafe ==
  ASSUME McpInv, NEW u, \A v \in DOMAIN servers : v # u /\ Enabled(v) => Enabled(v)', Withdraw(u)
  PROVE  ToolsOK' /\ ToolsOfEnabled' /\ OfferedFound'
<1>1. /\ DOMAIN tools' = {t \in DOMAIN tools : tools[t] # u}
      /\ \A t \in DOMAIN tools' : tools'[t] = tools[t]
      /\ tools' = [t \in DOMAIN tools' |-> tools[t]]
      /\ offered' = tools'
  BY DEF Withdraw, Without, Restrict
<1>2. \A t \in DOMAIN tools' : tools[t] # u /\ Enabled(tools[t]) /\ tools[t] \in Urls
  BY <1>1 DEF McpInv, ToolsOfEnabled, ToolsOK
<1>a. \A v \in DOMAIN servers : v # u /\ servers[v].enabled
                                => v \in DOMAIN servers' /\ servers'[v].enabled
  BY DEF Enabled
<1>3. \A t \in DOMAIN tools' : tools'[t] \in DOMAIN servers' /\ servers'[tools'[t]].enabled
  BY <1>1, <1>2, <1>a DEF Enabled
<1>4. ToolsOK'
  BY <1>1, <1>2 DEF ToolsOK
<1>5. ToolsOfEnabled'
  BY <1>3 DEF ToolsOfEnabled, Enabled
<1>6. OfferedFound'
  BY <1>1, <1>3 DEF OfferedFound, Enabled
<1> QED BY <1>4, <1>5, <1>6

(* A change of the fields of one server that keeps whether it is enabled. *)
LEMMA FieldsChanged ==
  ASSUME ServersOK, NEW u \in DOMAIN servers, NEW s \in Servers,
         s.enabled = servers[u].enabled, servers' = [servers EXCEPT ![u] = s]
  PROVE  ServersOK' /\ SameEnabled
  BY DEF ServersOK, SameEnabled

LEMMA UpdateSafe ==
  ASSUME McpInv, NEW u \in Urls, Update(u)
  PROVE  McpInv'
<1>1. CASE u \notin DOMAIN servers
  BY <1>1 DEF Update, Ignore, McpInv, ServersOK, ToolsOK, AskedOK, ToolsOfEnabled, OfferedFound, Enabled
<1>2. CASE u \in DOMAIN servers
  <2> DEFINE s == [servers[u] EXCEPT !.label = Title[u]]
  <2>1. /\ servers' = [servers EXCEPT ![u] = s]
        /\ Withdraw(u)
        /\ asked' = BagAdd(asked, HttpRequest(u, "list", 1))
    BY <1>2 DEF Update
  <2>2. s \in Servers /\ s.enabled = servers[u].enabled
    BY <1>2 DEF McpInv, ServersOK, Servers, Labels
  <2> HIDE DEF s
  <2>3. ServersOK' /\ SameEnabled
    BY <1>2, <2>1, <2>2, FieldsChanged DEF McpInv
  <2>4. \A v \in DOMAIN servers : v # u /\ Enabled(v) => Enabled(v)'
    BY <2>3 DEF SameEnabled, Enabled
  <2>5. ToolsOK' /\ ToolsOfEnabled' /\ OfferedFound'
    BY <2>1, <2>4, WithdrawSafe
  <2>6. AskedOK'
    BY <1>2, <2>1, <2>3, AskedAnew DEF McpInv, SameEnabled, McpMethods
  <2> QED BY <2>3, <2>5, <2>6 DEF McpInv
<1> QED BY <1>1, <1>2

LEMMA IgnoreSafe ==
  ASSUME McpInv, Ignore
  PROVE  McpInv'
  BY DEF Ignore, McpInv, ServersOK, ToolsOK, AskedOK, ToolsOfEnabled, OfferedFound, Enabled

(* Fields are changed and something is asked. *)
LEMMA AskSafe ==
  ASSUME McpInv, NEW u \in DOMAIN servers, NEW s \in Servers, NEW method \in McpMethods,
         s.enabled = servers[u].enabled, servers' = [servers EXCEPT ![u] = s],
         asked' = BagAdd(asked, HttpRequest(u, method, 1)), UNCHANGED <<tools, offered>>
  PROVE  McpInv'
<1>1. ServersOK' /\ SameEnabled
  BY FieldsChanged DEF McpInv
<1>2. \A v \in DOMAIN servers : Enabled(v) => Enabled(v)'
  BY <1>1 DEF SameEnabled, Enabled
<1>3. ToolsOK' /\ ToolsOfEnabled' /\ OfferedFound'
  BY <1>2, SameToolsSafe
<1>4. u \in Urls /\ u \in DOMAIN servers'
  BY <1>1 DEF McpInv, ServersOK, SameEnabled
<1>5. AskedOK'
  BY <1>1, <1>4, AskedAnew DEF McpInv
<1> QED BY <1>1, <1>3, <1>5 DEF McpInv

(***************************************************************************)
(* The actions.                                                            *)
(***************************************************************************)

LEMMA InitInv == McpInit => McpInv /\ AnswersOK /\ CountsOK
<1> SUFFICES ASSUME McpInit PROVE McpInv /\ AnswersOK /\ CountsOK
  OBVIOUS
<1> PICK known \in SUBSET Urls : \E on \in SUBSET known :
      /\ servers = [u \in known |-> Fresh(u, u \in on)]
      /\ asked = SetToBag({[url |-> u, method |-> "discover", page |-> 1,
                            header |-> "stateless"] : u \in on})
  BY DEF McpInit
<1> PICK on \in SUBSET known :
      /\ servers = [u \in known |-> Fresh(u, u \in on)]
      /\ asked = SetToBag({[url |-> u, method |-> "discover", page |-> 1,
                            header |-> "stateless"] : u \in on})
  OBVIOUS
<1>1. ServersOK
  BY DEF ServersOK, Servers, Fresh, Labels
<1>2. tools = << >> /\ offered = << >> /\ answers = << >> /\ changes = 0 /\ failures = 0
  BY DEF McpInit
<1>3. ToolsOK /\ ToolsOfEnabled /\ OfferedFound
  BY <1>2 DEF ToolsOK, ToolsOfEnabled, OfferedFound
<1>4. AskedOK
  <2>1. DOMAIN asked = {[url |-> u, method |-> "discover", page |-> 1,
                         header |-> "stateless"] : u \in on}
    BY DEF SetToBag
  <2>2. ASSUME NEW u \in on
        PROVE  Possible([url |-> u, method |-> "discover", page |-> 1, header |-> "stateless"])
    BY FirstPage DEF Possible, HttpRequests
  <2> QED BY <2>1, <2>2 DEF AskedOK
<1>5. AnswersOK /\ CountsOK
  BY <1>2, McpAssumption DEF AnswersOK, CountsOK
<1> QED BY <1>1, <1>3, <1>4, <1>5 DEF McpInv

LEMMA InsertSafe ==
  ASSUME McpInv, NEW u \in Urls, Insert(u)
  PROVE  McpInv'
<1>1. /\ u \notin DOMAIN servers
      /\ servers' = [v \in DOMAIN servers \cup {u} |->
                      IF v = u THEN Fresh(u, TRUE) ELSE servers[v]]
      /\ asked' = BagAdd(asked, HttpRequest(u, "discover", 1))
      /\ UNCHANGED <<tools, offered>>
  BY DEF Insert
<1>2. Fresh(u, TRUE) \in Servers
  BY DEF Fresh, Servers, Labels
<1>3. DOMAIN servers' = DOMAIN servers \cup {u}
  BY <1>1
<1>4. ServersOK'
  BY <1>1, <1>2, <1>3 DEF McpInv, ServersOK
<1>5. \A v \in DOMAIN servers : Enabled(v) => Enabled(v)'
  BY <1>1, <1>3 DEF Enabled
<1>6. ToolsOK' /\ ToolsOfEnabled' /\ OfferedFound'
  BY <1>1, <1>5, SameToolsSafe
<1>7. AskedOK'
  BY <1>1, <1>3, <1>4, AskedAnew DEF McpInv, McpMethods
<1> QED BY <1>4, <1>6, <1>7 DEF McpInv

LEMMA RemoveSafe ==
  ASSUME McpInv, NEW u \in Urls, Remove(u)
  PROVE  McpInv'
<1>1. /\ servers' = [v \in DOMAIN servers \ {u} |-> servers[v]]
      /\ Withdraw(u)
      /\ UNCHANGED asked
  BY DEF Remove, Restrict
<1>2. ServersOK'
  BY <1>1 DEF McpInv, ServersOK
<1>3. \A v \in DOMAIN servers : v # u /\ Enabled(v) => Enabled(v)'
  BY <1>1 DEF Enabled
<1>4. ToolsOK' /\ ToolsOfEnabled' /\ OfferedFound'
  BY <1>1, <1>3, WithdrawSafe
<1> QED BY <1>1, <1>2, <1>4 DEF McpInv, AskedOK

LEMMA EnableSafe ==
  ASSUME McpInv, NEW u \in Urls, Enable(u)
  PROVE  McpInv'
<1> DEFINE s == Discovering([servers[u] EXCEPT !.enabled = TRUE])
<1>1. /\ u \in DOMAIN servers
      /\ servers' = [servers EXCEPT ![u] = s]
      /\ asked' = BagAdd(asked, HttpRequest(u, "discover", 1))
      /\ UNCHANGED <<tools, offered>>
  BY DEF Enable
<1>2. s \in Servers /\ s.enabled
  BY <1>1 DEF McpInv, ServersOK, Servers, Discovering
<1> HIDE DEF s
<1>3. ServersOK' /\ DOMAIN servers' = DOMAIN servers
  BY <1>1, <1>2 DEF McpInv, ServersOK
<1>4. \A v \in DOMAIN servers : Enabled(v) => Enabled(v)'
  BY <1>1, <1>2 DEF Enabled
<1>5. ToolsOK' /\ ToolsOfEnabled' /\ OfferedFound'
  BY <1>1, <1>4, SameToolsSafe
<1>6. AskedOK'
  BY <1>1, <1>3, AskedAnew DEF McpInv, McpMethods
<1> QED BY <1>3, <1>5, <1>6 DEF McpInv

LEMMA DisableSafe ==
  ASSUME McpInv, NEW u \in Urls, Disable(u)
  PROVE  McpInv'
<1>1. /\ u \in DOMAIN servers
      /\ servers' = [servers EXCEPT ![u].enabled = FALSE]
      /\ Withdraw(u)
      /\ UNCHANGED asked
  BY DEF Disable
<1>2. ServersOK'
  BY <1>1 DEF McpInv, ServersOK, Servers
<1>3. \A v \in DOMAIN servers : v # u /\ Enabled(v) => Enabled(v)'
  BY <1>1 DEF Enabled
<1>4. ToolsOK' /\ ToolsOfEnabled' /\ OfferedFound'
  BY <1>1, <1>3, WithdrawSafe
<1> QED BY <1>1, <1>2, <1>4 DEF McpInv, AskedOK

LEMMA ReplySafe ==
  ASSUME McpInv, NEW r \in DOMAIN asked, NEW result, Reply(r, result)
  PROVE  McpInv'
<1>1. asked' = BagRemove(asked, r) /\ UNCHANGED <<tools, offered>>
  BY DEF Reply
<1>2. ServersOK' /\ SameEnabled
  <2>1. CASE UNCHANGED servers
    BY <2>1 DEF McpInv, ServersOK, SameEnabled
  <2>2. CASE r.url \in DOMAIN servers /\ servers' = [servers EXCEPT ![r.url].session = TRUE]
    BY <2>2 DEF McpInv, ServersOK, SameEnabled, Servers
  <2> QED BY <2>1, <2>2 DEF Reply
<1>3. \A v \in DOMAIN servers : Enabled(v) => Enabled(v)'
  BY <1>2 DEF SameEnabled, Enabled
<1>4. ToolsOK' /\ ToolsOfEnabled' /\ OfferedFound'
  BY <1>1, <1>3, SameToolsSafe
<1>5. AskedOK'
  BY <1>1 DEF BagRemove, McpInv, AskedOK
<1> QED BY <1>2, <1>4, <1>5 DEF McpInv

LEMMA AddPageSafe ==
  ASSUME McpInv, NEW u \in Urls, NEW page \in Nat, page \in 1 .. Len(Pages[u]),
         Enabled(u), UNCHANGED servers, AddPage(u, page)
  PROVE  McpInv'
<1> DEFINE new == {Exposed(servers[u].label, tool) : tool \in Pages[u][page]}
<1>1. tools' = [t \in DOMAIN tools \cup new |-> IF t \in new THEN u ELSE tools[t]]
  BY DEF AddPage, WithPage
<1> HIDE DEF new
<1>2. DOMAIN tools' = DOMAIN tools \cup new
  BY <1>1
<1>3. tools' \in [DOMAIN tools' -> Urls]
  BY <1>1, <1>2 DEF McpInv, ToolsOK
<1>4. \A t \in DOMAIN tools' : Enabled(tools'[t])
  BY <1>1, <1>2 DEF McpInv, ToolsOfEnabled
<1>5. ToolsOfEnabled'
  BY <1>4 DEF ToolsOfEnabled, Enabled
<1>6. ServersOK'
  BY DEF McpInv, ServersOK
<1>7. CASE asked' = BagAdd(asked, HttpRequest(u, "list", page + 1)) /\ page < Len(Pages[u])
           /\ UNCHANGED offered
  <2>1. page + 1 \in Nat /\ page + 1 \in 1 .. Len(Pages[u])
    BY <1>7, McpAssumption
  <2>2. servers'[u] \in Servers
    BY DEF McpInv, ServersOK, Enabled
  <2>3. Possible(HttpRequest(u, "list", page + 1))
    BY <2>1, <2>2, RequestPossible DEF McpMethods
  <2>4. AskedOK'
    BY <1>7, <2>3, AddedPossible DEF McpInv
  <2>5. DOMAIN offered \subseteq DOMAIN tools'
    BY <1>2 DEF McpInv, OfferedFound
  <2>6. OfferedFound'
    BY <1>4, <1>7, <2>5 DEF OfferedFound, Enabled
  <2>7. ToolsOK'
    BY <1>3, <1>7 DEF McpInv, ToolsOK
  <2> QED BY <1>5, <1>6, <2>4, <2>6, <2>7 DEF McpInv
<1>8. CASE offered' = tools' /\ UNCHANGED asked
  <2>1. OfferedFound'
    BY <1>4, <1>8 DEF OfferedFound, Enabled
  <2>2. ToolsOK' /\ AskedOK'
    BY <1>3, <1>8 DEF McpInv, ToolsOK, AskedOK
  <2> QED BY <1>5, <1>6, <2>1, <2>2 DEF McpInv
<1> QED BY <1>7, <1>8 DEF AddPage

LEMMA ContinueSafe ==
  ASSUME McpInv, AnswersOK, Continue
  PROVE  McpInv'
<1> DEFINE r == Head(answers).request
           result == Head(answers).result
<1>1. Possible(r)
  BY DEF AnswersOK, Continue
<1>2. r.url \in Urls /\ r.page \in Nat /\ r.page \in 1 .. Len(Pages[r.url])
  BY <1>1 DEF Possible, HttpRequests
<1>3. \/ Discovered(r, result) \/ Initialized(r, result)
      \/ Notified(r, result) \/ Listed(r, result)
  <2>1. r.method \in McpMethods
    BY <1>1 DEF Possible, HttpRequests, McpMethods
  <2> QED BY <2>1 DEF Continue, McpMethods
<1> HIDE DEF r, result
<1>4. CASE Discovered(r, result)
  <2>1. CASE Update(r.url)
    BY <1>2, <2>1, UpdateSafe
  <2>2. CASE /\ r.url \in DOMAIN servers
             /\ servers' = [servers EXCEPT ![r.url] = Initializing(servers[r.url])]
             /\ asked' = BagAdd(asked, HttpRequest(r.url, "initialize", 1))
             /\ UNCHANGED <<tools, offered>>
    <3>1. /\ Initializing(servers[r.url]) \in Servers
          /\ Initializing(servers[r.url]).enabled = servers[r.url].enabled
      BY <2>2 DEF McpInv, ServersOK, Servers, Initializing
    <3> QED BY <2>2, <3>1, AskSafe DEF McpMethods
  <2>3. CASE Ignore
    BY <2>3, IgnoreSafe
  <2> QED BY <1>4, <2>1, <2>2, <2>3 DEF Discovered
<1>5. CASE Initialized(r, result)
  <2>1. CASE Ignore
    BY <2>1, IgnoreSafe
  <2>2. CASE /\ r.url \in DOMAIN servers
             /\ servers' = [servers EXCEPT ![r.url].version = "stateful"]
             /\ asked' = BagAdd(asked, HttpRequest(r.url, "notify", 1))
             /\ UNCHANGED <<tools, offered>>
    <3> DEFINE s == [servers[r.url] EXCEPT !.version = "stateful"]
    <3>1. s \in Servers /\ s.enabled = servers[r.url].enabled
      BY <2>2 DEF McpInv, ServersOK, Servers
    <3>2. servers' = [servers EXCEPT ![r.url] = s]
      BY <2>2
    <3> QED BY <2>2, <3>1, <3>2, AskSafe DEF McpMethods
  <2> QED BY <1>5, <2>1, <2>2 DEF Initialized
<1>6. CASE Notified(r, result)
  BY <1>2, <1>6, UpdateSafe, IgnoreSafe DEF Notified
<1>7. CASE Listed(r, result)
  <2>1. CASE Ignore
    BY <2>1, IgnoreSafe
  <2>2. CASE Enabled(r.url) /\ UNCHANGED servers /\ AddPage(r.url, r.page)
    BY <1>2, <2>2, AddPageSafe
  <2> QED BY <1>7, <2>1, <2>2 DEF Listed, Enabled
<1> QED BY <1>3, <1>4, <1>5, <1>6, <1>7

(* The answers, and the counters of the bounds. *)
LEMMA AnswersKept ==
  ASSUME AskedOK, AnswersOK, CountsOK, McpNext
  PROVE  AnswersOK' /\ CountsOK'
<1> USE McpAssumption
<1>1. CASE \E u \in Urls : Insert(u) \/ Remove(u) \/ Enable(u) \/ Disable(u)
  <2>1. UNCHANGED <<answers, failures>> /\ UserChanges
    BY <1>1 DEF Insert, Remove, Enable, Disable
  <2> QED BY <2>1 DEF AnswersOK, CountsOK, UserChanges
<1>2. CASE Replies \/ Fails
  <2>1. PICK r \in DOMAIN asked, result \in Results : Reply(r, result)
    BY <1>2 DEF Replies, Fails, Results
  <2>2. Possible(r) /\ r \in HttpRequests
    BY DEF AskedOK, Possible
  <2> DEFINE a == [request |-> r, result |-> result]
  <2>3. answers' = Append(answers, a) /\ UNCHANGED changes
    BY <2>1 DEF Reply
  <2>4. a \in [request : HttpRequests, result : Results] /\ Possible(a.request)
    BY <2>2
  <2> HIDE DEF a
  <2>5. AnswersOK'
    BY <2>3, <2>4 DEF AnswersOK
  <2>6. failures' \in 0 .. MaxFailures
    BY <1>2 DEF Replies, Fails, CountsOK
  <2> QED BY <2>3, <2>5, <2>6 DEF CountsOK
<1>3. CASE Continue
  <2>1. answers # << >> /\ answers' = Tail(answers) /\ UNCHANGED <<changes, failures>>
    BY <1>3 DEF Continue
  <2> QED BY <2>1 DEF AnswersOK, CountsOK
<1> QED BY <1>1, <1>2, <1>3 DEF McpNext

LEMMA NextInv ==
  ASSUME McpInv, AnswersOK, McpNext
  PROVE  McpInv'
<1>1. CASE \E u \in Urls : Insert(u) \/ Remove(u) \/ Enable(u) \/ Disable(u)
  BY <1>1, InsertSafe, RemoveSafe, EnableSafe, DisableSafe
<1>2. CASE Replies \/ Fails
  BY <1>2, ReplySafe DEF Replies, Fails
<1>3. CASE Continue
  BY <1>3, ContinueSafe
<1> QED BY <1>1, <1>2, <1>3 DEF McpNext

LEMMA StepInv == McpInv /\ AnswersOK /\ CountsOK /\ [McpNext]_mcpVars => (McpInv /\ AnswersOK /\ CountsOK)'
<1> SUFFICES ASSUME McpInv, AnswersOK, CountsOK, [McpNext]_mcpVars
             PROVE  McpInv' /\ AnswersOK' /\ CountsOK'
  OBVIOUS
<1>1. CASE McpNext
  BY <1>1, NextInv, AnswersKept DEF McpInv
<1>2. CASE UNCHANGED mcpVars
  BY <1>2 DEF mcpVars, McpInv, ServersOK, ToolsOK, AskedOK, AnswersOK, CountsOK,
              ToolsOfEnabled, OfferedFound, Enabled
<1> QED BY <1>1, <1>2

LEMMA SpecInv == McpSpec => [](McpInv /\ AnswersOK /\ CountsOK)
  BY InitInv, StepInv, PTL DEF McpSpec

(* Types; and every page that is asked for exists: toolsGet.               *)
THEOREM McpTypes == McpSpec => []McpTypeOK
<1>1. McpInv /\ AnswersOK /\ CountsOK => McpTypeOK
  BY McpTypesInParts DEF McpInv
<1> QED BY <1>1, SpecInv, PTL

(* However late an answer comes, the tools known are of servers that the   *)
(* user has and has enabled.                                               *)
THEOREM McpToolsOfEnabled == McpSpec => []ToolsOfEnabled
<1>1. McpInv => ToolsOfEnabled
  BY DEF McpInv
<1> QED BY <1>1, SpecInv, PTL

(***************************************************************************)
(* Whose name a tool has.                                                  *)
(***************************************************************************)

(* Tools are exposed under a label of their server, and stay so when the   *)
(* server tells its title.                                                 *)
Own(u) == {Host[u], Title[u]}
ServersLabelled == \A u \in DOMAIN servers : servers[u].label \in Own(u)
ToolsLabelled == /\ \A t \in DOMAIN tools : t[1] \in Own(tools[t])
                 /\ \A t \in DOMAIN offered : t[1] \in Own(offered[t])
Labelled == ServersLabelled /\ ToolsLabelled

LEMMA InitLabelled == McpInit => Labelled
  BY DEF McpInit, Labelled, ServersLabelled, ToolsLabelled, Own, Fresh

LEMMA WithdrawLabelled ==
  ASSUME ToolsLabelled, NEW u, Withdraw(u)
  PROVE  ToolsLabelled'
<1>1. /\ DOMAIN tools' \subseteq DOMAIN tools
      /\ \A t \in DOMAIN tools' : tools'[t] = tools[t]
      /\ offered' = tools'
  BY DEF Withdraw, Without, Restrict
<1> QED BY <1>1 DEF ToolsLabelled, Own

LEMMA AddPageLabelled ==
  ASSUME Labelled, NEW u \in DOMAIN servers, NEW page, AddPage(u, page)
  PROVE  ToolsLabelled'
<1> DEFINE new == {Exposed(servers[u].label, tool) : tool \in Pages[u][page]}
<1>1. tools' = [t \in DOMAIN tools \cup new |-> IF t \in new THEN u ELSE tools[t]]
  BY DEF AddPage, WithPage
<1>2. \A t \in new : t[1] \in Own(u)
  BY DEF Exposed, Labelled, ServersLabelled
<1> HIDE DEF new
<1>3. \A t \in DOMAIN tools' : t[1] \in Own(tools'[t])
  BY <1>1, <1>2 DEF Labelled, ToolsLabelled
<1>4. offered' = offered \/ offered' = tools'
  BY DEF AddPage
<1> QED BY <1>3, <1>4 DEF Labelled, ToolsLabelled, Own

LEMMA UpdateLabelled ==
  ASSUME McpInv, Labelled, NEW u, Update(u)
  PROVE  Labelled'
<1>1. CASE u \notin DOMAIN servers
  BY <1>1 DEF Update, Ignore, Labelled, ServersLabelled, ToolsLabelled, Own
<1>2. CASE u \in DOMAIN servers
  <2>1. Withdraw(u) /\ servers' = [servers EXCEPT ![u].label = Title[u]]
    BY <1>2 DEF Update
  <2>2. ServersLabelled'
    BY <1>2, <2>1 DEF McpInv, ServersOK, Servers, Labelled, ServersLabelled, Own
  <2> QED BY <2>1, <2>2, WithdrawLabelled DEF Labelled
<1> QED BY <1>1, <1>2

(* A change of a server that keeps its label, and of no tool. *)
LEMMA FieldsLabelled ==
  ASSUME Labelled, NEW u \in DOMAIN servers, NEW s, s.label = servers[u].label,
         servers' = [servers EXCEPT ![u] = s], UNCHANGED <<tools, offered>>
  PROVE  Labelled'
  BY DEF Labelled, ServersLabelled, ToolsLabelled, Own

LEMMA UserLabelled ==
  ASSUME McpInv, Labelled, NEW u \in Urls, Insert(u) \/ Remove(u) \/ Enable(u) \/ Disable(u)
  PROVE  Labelled'
<1>1. CASE Insert(u)
  <2>1. /\ servers' = [v \in DOMAIN servers \cup {u} |->
                         IF v = u THEN Fresh(u, TRUE) ELSE servers[v]]
        /\ UNCHANGED <<tools, offered>>
    BY <1>1 DEF Insert
  <2>2. Fresh(u, TRUE).label = Host[u]
    BY DEF Fresh
  <2> QED BY <2>1, <2>2 DEF Labelled, ServersLabelled, ToolsLabelled, Own
<1>2. CASE Remove(u)
  <2>1. Withdraw(u) /\ servers' = [v \in DOMAIN servers \ {u} |-> servers[v]]
    BY <1>2 DEF Remove, Restrict
  <2>2. ServersLabelled'
    BY <2>1 DEF Labelled, ServersLabelled, Own
  <2> QED BY <2>1, <2>2, WithdrawLabelled DEF Labelled
<1>3. CASE Enable(u)
  <2> DEFINE s == Discovering([servers[u] EXCEPT !.enabled = TRUE])
  <2>1. /\ u \in DOMAIN servers /\ servers' = [servers EXCEPT ![u] = s]
        /\ UNCHANGED <<tools, offered>>
    BY <1>3 DEF Enable
  <2>2. s.label = servers[u].label
    BY <2>1 DEF Discovering, McpInv, ServersOK, Servers
  <2> HIDE DEF s
  <2> QED BY <2>1, <2>2, FieldsLabelled
<1>4. CASE Disable(u)
  <2>1. /\ Withdraw(u) /\ u \in DOMAIN servers
        /\ servers' = [servers EXCEPT ![u].enabled = FALSE]
    BY <1>4 DEF Disable
  <2>2. ServersLabelled'
    BY <2>1 DEF McpInv, ServersOK, Servers, Labelled, ServersLabelled, Own
  <2> QED BY <2>1, <2>2, WithdrawLabelled DEF Labelled
<1> QED BY <1>1, <1>2, <1>3, <1>4

LEMMA ContinueLabelled ==
  ASSUME McpInv, AnswersOK, Labelled, Continue
  PROVE  Labelled'
<1> DEFINE r == Head(answers).request
           result == Head(answers).result
<1>1. \/ Discovered(r, result) \/ Initialized(r, result)
      \/ Notified(r, result) \/ Listed(r, result)
  <2>1. r.method \in McpMethods
    BY DEF AnswersOK, Continue, Possible, HttpRequests, McpMethods
  <2> QED BY <2>1 DEF Continue, McpMethods
<1> HIDE DEF r, result
<1>2. CASE Ignore \/ Update(r.url)
  BY <1>2, UpdateLabelled DEF Ignore, Labelled, ServersLabelled, ToolsLabelled, Own
<1>3. CASE Discovered(r, result)
  <2>1. CASE /\ r.url \in DOMAIN servers
             /\ servers' = [servers EXCEPT ![r.url] = Initializing(servers[r.url])]
             /\ UNCHANGED <<tools, offered>>
    <3>1. Initializing(servers[r.url]).label = servers[r.url].label
      BY <2>1 DEF Initializing, McpInv, ServersOK, Servers
    <3> QED BY <2>1, <3>1, FieldsLabelled
  <2> QED BY <1>2, <1>3, <2>1 DEF Discovered
<1>4. CASE Initialized(r, result)
  <2>1. CASE /\ r.url \in DOMAIN servers
             /\ servers' = [servers EXCEPT ![r.url].version = "stateful"]
             /\ UNCHANGED <<tools, offered>>
    <3> DEFINE s == [servers[r.url] EXCEPT !.version = "stateful"]
    <3>1. s.label = servers[r.url].label /\ servers' = [servers EXCEPT ![r.url] = s]
      BY <2>1 DEF McpInv, ServersOK, Servers
    <3> HIDE DEF s
    <3> QED BY <2>1, <3>1, FieldsLabelled
  <2> QED BY <1>2, <1>4, <2>1 DEF Initialized
<1>5. CASE Notified(r, result)
  BY <1>2, <1>5 DEF Notified
<1>6. CASE Listed(r, result)
  <2>1. CASE r.url \in DOMAIN servers /\ UNCHANGED servers /\ AddPage(r.url, r.page)
    BY <2>1, AddPageLabelled DEF Labelled, ServersLabelled, Own
  <2> QED BY <1>2, <1>6, <2>1 DEF Listed
<1> QED BY <1>1, <1>3, <1>4, <1>5, <1>6

LEMMA StepLabelled == McpInv /\ AnswersOK /\ Labelled /\ [McpNext]_mcpVars => Labelled'
<1> SUFFICES ASSUME McpInv, AnswersOK, Labelled, [McpNext]_mcpVars PROVE Labelled'
  OBVIOUS
<1>1. CASE \E u \in Urls : Insert(u) \/ Remove(u) \/ Enable(u) \/ Disable(u)
  BY <1>1, UserLabelled
<1>2. CASE Replies \/ Fails
  <2>1. PICK r, result : Reply(r, result)
    BY <1>2 DEF Replies, Fails
  <2>2. UNCHANGED <<tools, offered>>
    BY <2>1 DEF Reply
  <2>3. CASE r.url \in DOMAIN servers /\ servers' = [servers EXCEPT ![r.url].session = TRUE]
    <3> DEFINE s == [servers[r.url] EXCEPT !.session = TRUE]
    <3>1. s.label = servers[r.url].label /\ servers' = [servers EXCEPT ![r.url] = s]
      BY <2>3 DEF McpInv, ServersOK, Servers
    <3> HIDE DEF s
    <3> QED BY <2>2, <2>3, <3>1, FieldsLabelled
  <2>4. CASE UNCHANGED servers
    BY <2>2, <2>4 DEF Labelled, ServersLabelled, ToolsLabelled, Own
  <2> QED BY <2>1, <2>3, <2>4 DEF Reply
<1>3. CASE Continue
  BY <1>3, ContinueLabelled
<1>4. CASE UNCHANGED mcpVars
  BY <1>4 DEF mcpVars, Labelled, ServersLabelled, ToolsLabelled, Own
<1> QED BY <1>1, <1>2, <1>3, <1>4 DEF McpNext

(* The agent is offered nothing that toolExecute would not know, of a      *)
(* server that is enabled; and it asks the server that the tool was        *)
(* offered for, unless servers have a title or a host in common.           *)
THEOREM McpOfferedKnown == McpSpec => []OfferedKnown
<1>1. McpInv /\ Labelled => OfferedKnown
  <2> SUFFICES ASSUME McpInv, Labelled, NEW t \in DOMAIN offered
               PROVE  /\ t \in DOMAIN tools /\ Enabled(tools[t])
                      /\ LabelsApart => tools[t] = offered[t]
    BY DEF OfferedKnown
  <2>1. t \in DOMAIN tools /\ Enabled(tools[t])
    BY DEF McpInv, OfferedFound
  <2>2. tools[t] \in Urls /\ offered[t] \in Urls
    BY <2>1 DEF McpInv, ToolsOK
  <2>3. t[1] \in Own(tools[t]) /\ t[1] \in Own(offered[t])
    BY <2>1 DEF Labelled, ToolsLabelled
  <2> QED BY <2>1, <2>2, <2>3 DEF LabelsApart, Own
<1>2. McpSpec => []Labelled
  BY SpecInv, InitLabelled, StepLabelled, PTL DEF McpSpec
<1> QED BY <1>1, <1>2, SpecInv, PTL
=============================================================================
