---------------------------- MODULE ModbusMaster ----------------------------
(***************************************************************************)
(* The Modbus objects of scripts (api/modbusTcp.cpp, modbusRtu.cpp and     *)
(* modbusAscii.cpp) over one port.                                         *)
(*                                                                         *)
(* A call is run by the thread of the port: it writes the request, waits   *)
(* until the buffer has the bytes of the expected answer or the timeout is *)
(* over, takes that many bytes, or else all there are, and accepts them    *)
(* when they are one frame of the same key and function.  The key is what  *)
(* the parsers compare: the transaction id and the unit of Modbus TCP, the *)
(* address of the slave of RTU and ASCII.                                  *)
(*                                                                         *)
(* The three kinds differ in their fixed bytes only, which are one cell of *)
(* a frame here, and so is every byte of its data.  A coil is a register   *)
(* that takes a bit of an answer; one or two fit into the same byte.       *)
(* Bytes that are not exactly one frame are taken to fail a check of the   *)
(* header or the checksum.  Port models the port itself: a full buffer     *)
(* closes it.                                                              *)
(***************************************************************************)
EXTENDS Naturals, Sequences, FiniteSets

CONSTANTS Clients,    \* Modbus objects
          Key,        \* of each client, a record of the unit and the id
          LastReg,    \* the registers of a unit are 1 to LastReg
          Values,
          Off,        \* the value of a coil that is off
          MaxCalls,   \* bound
          MaxLate,    \* bound: calls whose answer takes longer than the timeout
          MaxLost,    \* bound: requests and answers lost on the line
          MaxDrift,   \* bound: registers that change by themselves
          MaxOpens    \* bound: the user closes and opens the port

Regs == 1 .. LastReg
Units == {Key[c].unit : c \in Clients}

ASSUME ModbusAssumption ==
         /\ LastReg \in Nat \ {0} /\ Off \in Values
         /\ MaxCalls \in Nat /\ MaxLate \in Nat /\ MaxLost \in Nat /\ MaxDrift \in Nat /\ MaxOpens \in Nat
         /\ \A c \in Clients : DOMAIN Key[c] = {"unit", "id"}

VARIABLES call,       \* of each client, the set of its request: empty when it makes none
          result,     \* of each client, what the call before has given
          queue,      \* calls posted to the thread of the port
          busy,       \* whether the thread waits for the answer to the first of them
          open,       \* whether the port is open
          sent,       \* requests the devices have yet to answer
          coming,     \* cells of answers on the line
          buffer,     \* cells in the buffer of the port
          registers,  \* of the devices
          used,       \* for the bounds
          seen, carried, \* since the call was made: contents of the registers, writes done
          ever           \* writes done by the units

line == <<sent, coming, buffer>>
ghosts == <<seen, carried, ever>>
vars == <<call, result, queue, busy, open, line, registers, used, ghosts>>

Upto(S) == UNION {[1 .. n -> S] : n \in 0 .. 2}
Reading == {"read", "bits"}
Requests == [kind : Reading, reg : Regs \cup {LastReg + 1}, n : {1, 2}, vals : {<< >>}]
              \cup [kind : {"write"}, reg : Regs, n : {1}, vals : [1 .. 1 -> Values]]
              \cup [kind : {"writes"}, reg : Regs, n : {2}, vals : [1 .. 2 -> Values]]
None == [ok |-> FALSE, request |-> {}, vals |-> << >>]

TypeOK == /\ \A c \in Clients : call[c] \subseteq Requests /\ Cardinality(call[c]) <= 1
          /\ \A c \in Clients : result[c].ok \in BOOLEAN /\ result[c].vals \in Upto(Values)
          /\ \A i \in DOMAIN queue : call[queue[i]] # {}
          /\ busy => queue # << >> /\ open
          /\ registers \in [Units -> [Regs -> Values]]

Init == /\ call = [c \in Clients |-> {}] /\ result = [c \in Clients |-> None]
        /\ queue = << >> /\ busy = FALSE /\ open = TRUE
        /\ sent = << >> /\ coming = << >> /\ buffer = << >>
        /\ registers \in [Units -> {[r \in Regs |-> v] : v \in Values}]
        /\ used = [calls |-> 0, late |-> 0, lost |-> 0, drift |-> 0, opens |-> 0]
        /\ seen = [c \in Clients |-> {}] /\ carried = [c \in Clients |-> {}]
        /\ ever = {}

Use(what, bound) == used[what] < bound /\ used' = [used EXCEPT ![what] = @ + 1]

The(S) == CHOOSE x \in S : TRUE
Span(request) == request.reg .. request.reg + request.n - 1
Contents(regs, c, request) ==
  IF Span(request) \subseteq Regs
  THEN {[i \in 1 .. request.n |-> regs[Key[c].unit][request.reg + i - 1]]} ELSE {}

(***************************************************************************)
(* The script: a call blocks it until the thread of the port has run it.   *)
(***************************************************************************)

Call(c, request) ==
  /\ call[c] = {} /\ Use("calls", MaxCalls)
  /\ call' = [call EXCEPT ![c] = {request}]
  /\ queue' = Append(queue, c)
  /\ seen' = [seen EXCEPT ![c] = Contents(registers, c, request)]
  /\ carried' = [carried EXCEPT ![c] = {}]
  /\ UNCHANGED <<result, busy, open, line, registers, ever>>

Return(c, answer) ==
  /\ call' = [call EXCEPT ![c] = {}]
  /\ result' = [result EXCEPT ![c] = answer]
  /\ queue' = Tail(queue) /\ busy' = FALSE

(***************************************************************************)
(* The thread of the port.                                                 *)
(***************************************************************************)

(* The bytes of data: two for each register, one for up to eight coils,    *)
(* and the address and the count or the value that a write echoes.         *)
Octets(request) == CASE request.kind = "read" -> 2 * request.n
                     [] request.kind = "bits" -> (request.n + 7) \div 8
                     [] OTHER -> 3
Expected(request) == 1 + Octets(request)
Length(frame) == IF frame.ok THEN Expected(frame) ELSE 1

Begin ==
  /\ ~busy /\ queue # << >>
  /\ LET c == Head(queue)
     IN  \/ /\ open /\ busy' = TRUE
            /\ sent' = Append(sent, [key |-> Key[c], request |-> The(call[c])])
            /\ UNCHANGED <<call, result, queue>>
         \/ /\ ~open /\ Return(c, None) /\ UNCHANGED sent
  /\ UNCHANGED <<open, coming, buffer, registers, used, ghosts>>

IsFrame(cells) ==
  /\ cells # << >>
  /\ \A i \in DOMAIN cells : cells[i] = [frame |-> cells[1].frame, at |-> i]
  /\ Len(cells) = Length(cells[1].frame)

(* What a script is given: of coils as many as it asked for, taken from    *)
(* the bits there are; those that no coil was answered for are clear.      *)
Data(request, frame) ==
  IF request.kind = "bits"
  THEN [i \in 1 .. request.n |-> IF i \in DOMAIN frame.vals THEN frame.vals[i] ELSE Off]
  ELSE frame.vals

(* What the operations compare: how many bytes were read, the address and  *)
(* the count of a multiple write, the address and the value of a single.   *)
Fits(request, frame) ==
  CASE request.kind \in Reading -> Octets(frame) = Octets(request)
    [] request.kind = "writes" -> frame.reg = request.reg /\ frame.n = request.n
    [] request.kind = "write" -> frame.reg = request.reg /\ frame.vals = request.vals

(* Mutant: the key of an answer is not looked at. *)
ParserAnyKey(c, request, cells) ==
  IF IsFrame(cells) /\ cells[1].frame.ok /\ cells[1].frame.kind = request.kind
     /\ Fits(request, cells[1].frame)
  THEN [ok |-> TRUE, request |-> {request}, vals |-> Data(request, cells[1].frame)]
  ELSE None
(* parser, and the checks of the operation after it; everything else that  *)
(* may come is an error thrown into the script.                            *)
Parser(c, request, cells) ==
  IF IsFrame(cells) /\ cells[1].frame.ok /\ cells[1].frame.kind = request.kind
     /\ cells[1].frame.key = Key[c] /\ Fits(request, cells[1].frame)
  THEN [ok |-> TRUE, request |-> {request}, vals |-> Data(request, cells[1].frame)]
  ELSE None

Take(n) ==
  LET c == Head(queue)
  IN  /\ Return(c, Parser(c, The(call[c]), SubSeq(buffer, 1, n)))
      /\ buffer' = SubSeq(buffer, n + 1, Len(buffer))
      /\ UNCHANGED <<open, sent, coming, registers, ghosts>>

Enough ==
  LET n == Expected(The(call[Head(queue)]))
  IN  busy /\ Len(buffer) >= n /\ Take(n) /\ UNCHANGED used

Short == busy /\ Len(buffer) < Expected(The(call[Head(queue)]))
InTime == sent = << >> /\ coming = << >>
(* Mutant: what is there is taken without waiting. *)
TimeoutAtOnce == Short /\ Take(Len(buffer)) /\ UNCHANGED used
Timeout == /\ Short /\ Take(Len(buffer))
           /\ IF InTime THEN UNCHANGED used ELSE Use("late", MaxLate)

(* Bytes are put into the buffer while a call waits and between calls. *)
Arrive(n) ==
  /\ open /\ n <= Len(coming)
  /\ buffer' = buffer \o SubSeq(coming, 1, n)
  /\ coming' = SubSeq(coming, n + 1, Len(coming))
  /\ UNCHANGED <<call, result, queue, busy, open, sent, registers, used, ghosts>>

(* Closing is run by the thread of the port as well. *)
Close ==
  /\ ~busy /\ open /\ open' = FALSE /\ Use("opens", MaxOpens)
  /\ coming' = << >> /\ buffer' = << >>
  /\ UNCHANGED <<call, result, queue, busy, sent, registers, ghosts>>
Open ==
  /\ ~open /\ open' = TRUE
  /\ UNCHANGED <<call, result, queue, busy, line, registers, used, ghosts>>

(***************************************************************************)
(* The devices.  Each answers its requests in their order.                 *)
(***************************************************************************)

First(i) == \A j \in 1 .. i - 1 : sent[j].key.unit # sent[i].key.unit
Without(i) == SubSeq(sent, 1, i - 1) \o SubSeq(sent, i + 1, Len(sent))

Answer(s, regs) ==
  LET r == s.request
      legal == Span(r) \subseteq Regs
      data == [i \in 1 .. r.n |-> regs[s.key.unit][r.reg + i - 1]]
  IN  [key |-> s.key, kind |-> r.kind, ok |-> legal, n |-> r.n,
       reg |-> IF r.kind \in Reading THEN 0 ELSE r.reg,
       vals |-> IF ~legal THEN << >> ELSE IF r.kind \in Reading THEN data
                ELSE IF r.kind = "write" THEN r.vals ELSE << >>]
Cells(frame) == [i \in 1 .. Length(frame) |-> [frame |-> frame, at |-> i]]

Written(s) ==
  LET r == s.request
  IN  IF r.kind \in Reading \/ ~(Span(r) \subseteq Regs) THEN registers
      ELSE [registers EXCEPT ![s.key.unit] =
              [q \in Regs |-> IF q \in Span(r) THEN r.vals[q - r.reg + 1] ELSE @[q]]]

Noted == seen' = [c \in Clients |-> IF call[c] = {} THEN seen[c]
                                    ELSE seen[c] \cup Contents(registers', c, The(call[c]))]

Done(s) == [unit |-> s.key.unit, request |-> s.request]

Serve(i) ==
  /\ i \in DOMAIN sent /\ First(i)
  /\ registers' = Written(sent[i])
  /\ sent' = Without(i)
  /\ \/ /\ open /\ coming' = coming \o Cells(Answer(sent[i], registers)) /\ UNCHANGED used
     \/ /\ ~open /\ UNCHANGED <<coming, used>>
     \/ /\ UNCHANGED coming /\ Use("lost", MaxLost)
  /\ Noted
  /\ LET done == IF sent[i].request.kind \in Reading THEN {} ELSE {Done(sent[i])}
     IN  /\ carried' = [c \in Clients |-> IF call[c] = {} THEN carried[c] ELSE carried[c] \cup done]
         /\ ever' = ever \cup done
  /\ UNCHANGED <<call, result, queue, busy, open, buffer>>

Lose(i) ==
  /\ i \in DOMAIN sent /\ Use("lost", MaxLost) /\ sent' = Without(i)
  /\ UNCHANGED <<call, result, queue, busy, open, coming, buffer, registers, ghosts>>

Drift(u, r, v) ==
  /\ Use("drift", MaxDrift) /\ registers[u][r] # v
  /\ registers' = [registers EXCEPT ![u][r] = v] /\ Noted
  /\ UNCHANGED <<call, result, queue, busy, open, line, carried, ever>>

Next == \/ \E c \in Clients, r \in Requests : Call(c, r)
        \/ Begin \/ Enough \/ Timeout
        \/ \E n \in 1 .. 5 : Arrive(n)
        \/ Close \/ Open
        \/ \E i \in 1 .. MaxCalls : Serve(i) \/ Lose(i)
        \/ \E u \in Units, r \in Regs, v \in Values : Drift(u, r, v)

Spec == Init /\ [][Next]_vars

(***************************************************************************)
(* Properties.                                                             *)
(***************************************************************************)

Claim(c) == [unit |-> Key[c].unit, request |-> The(result[c].request)]
Given(c, kinds) == result[c].ok /\ \E r \in result[c].request : r.kind \in kinds

(* What a read returns is what the registers it names held at one moment   *)
(* of the call: not another register, unit or moment, whatever was lost,   *)
(* refused or answered in pieces before.                                   *)
ReadCurrent ==
  \A c \in Clients : call[c] = {} /\ Given(c, Reading) => result[c].vals \in seen[c]

(* A write that returns without an error was carried out by the unit while *)
(* the script waited: the echo is of this request.                         *)
WriteCarried ==
  \A c \in Clients : call[c] = {} /\ Given(c, {"write", "writes"}) =>
    Claim(c) \in carried[c]

(* No call leaves anything for the next one: between calls, with nothing   *)
(* on the line, the buffer is empty.                                       *)
NothingLeft == ~busy /\ InTime => buffer = << >>

(* As long as no answer has been later than the timeout, what a read       *)
(* returns is what its registers held during the call, a write that        *)
(* returns without an error was carried out during it, and no call leaves  *)
(* anything in the buffer for the next one (the parsers; read(0) after a   *)
(* timeout).                                                               *)
TimelyResultsTrue == used.late = 0 => ReadCurrent /\ WriteCarried /\ NothingLeft

(* A single write that returns without an error was carried out at some    *)
(* time by its unit, for this call or an earlier one, however late the     *)
(* echo that confirms it and whoever else uses the port.                   *)
SingleWriteDone ==
  \A c \in Clients : call[c] = {} /\ Given(c, {"write"}) => Claim(c) \in ever
=============================================================================
