------------------------- MODULE ModbusMasterProofs -------------------------
(***************************************************************************)
(* A single write that is confirmed was carried out, for every number of   *)
(* objects, whatever is late or lost: every echo on the line and in the    *)
(* buffer is of a write done, and the parser compares all that tells one   *)
(* write from another.                                                     *)
(***************************************************************************)
EXTENDS ModbusMaster, SequenceTheorems, FiniteSetTheorems, TLAPS

Keys == {Key[c] : c \in Clients}
Frames == [key : Keys, kind : {"read", "bits", "write", "writes"}, ok : BOOLEAN, n : {1, 2},
           reg : Nat, vals : Upto(Values)]

(* The write an echo is of, and the cells of answers but echoes of nothing. *)
Echo(f) == [unit |-> f.key.unit,
            request |-> [kind |-> "write", reg |-> f.reg, n |-> 1, vals |-> f.vals]]
Real(f) == f.ok /\ f.kind = "write" => Echo(f) \in ever
RealCells == {x \in [frame : Frames, at : Nat] : Real(x.frame)}

LinesOK == /\ sent \in Seq([key : Keys, request : Requests])
           /\ coming \in Seq(RealCells) /\ buffer \in Seq(RealCells)
           /\ registers \in [Units -> [Regs -> Values]]
CallsOK == /\ call \in [Clients -> {{}} \cup {{r} : r \in Requests}]
           /\ queue \in Seq(Clients)
           /\ \A i \in DOMAIN queue : call[queue[i]] # {}
           /\ \A i, j \in DOMAIN queue : queue[i] = queue[j] => i = j
           /\ busy \in BOOLEAN /\ busy => queue # << >>

Confirmed(r, c) ==
  r.ok => \A q \in r.request : q.kind = "write" =>
            r.request = {q} /\ [unit |-> Key[c].unit, request |-> q] \in ever
ResultsOK == DOMAIN result = Clients /\ \A c \in Clients : Confirmed(result[c], c)

IInv == LinesOK /\ CallsOK /\ ResultsOK

LEMMA InitInv == Init => IInv
<1> SUFFICES ASSUME Init PROVE IInv
  OBVIOUS
<1>1. LinesOK
  <2>1. registers \in [Units -> [Regs -> Values]]
    BY DEF Init
  <2> QED BY <2>1 DEF Init, LinesOK
<1>2. CallsOK
  BY DEF Init, CallsOK
<1>3. ResultsOK
  BY DEF Init, ResultsOK, Confirmed, None
<1> QED BY <1>1, <1>2, <1>3 DEF IInv

(***************************************************************************)
(* Sequences.                                                              *)
(***************************************************************************)

LEMMA SeqOfMore ==
  ASSUME NEW S, NEW T, S \subseteq T, NEW s \in Seq(S)
  PROVE  s \in Seq(T)
  OBVIOUS

(* A buffer cut in two. *)
LEMMA Cut ==
  ASSUME NEW S, NEW s \in Seq(S), NEW n \in Nat, n <= Len(s)
  PROVE  SubSeq(s, 1, n) \in Seq(S) /\ SubSeq(s, n + 1, Len(s)) \in Seq(S)
<1>1. \A i \in 1 .. n : s[i] \in S
  OBVIOUS
<1>2. \A i \in n + 1 .. Len(s) : s[i] \in S
  OBVIOUS
<1> QED BY <1>1, <1>2, SubSeqProperties

(* One element taken out. *)
LEMMA TakenOut ==
  ASSUME NEW S, NEW s \in Seq(S), NEW i \in 1 .. Len(s)
  PROVE  SubSeq(s, 1, i - 1) \o SubSeq(s, i + 1, Len(s)) \in Seq(S)
<1>1. SubSeq(s, 1, i - 1) \in Seq(S) /\ SubSeq(s, i + 1, Len(s)) \in Seq(S)
  <2>1. i - 1 \in Nat /\ i - 1 <= Len(s) /\ i \in Nat /\ i <= Len(s)
    OBVIOUS
  <2> QED BY <2>1, Cut
<1> QED BY <1>1, ConcatProperties

(* What is done stays done, so that no echo becomes one of nothing. *)
LEMMA RealGrows ==
  ASSUME ever \subseteq ever'
  PROVE  RealCells \subseteq RealCells'
  BY DEF RealCells, Real

(***************************************************************************)
(* The actions.                                                            *)
(***************************************************************************)

LEMMA CallInv ==
  ASSUME IInv, NEW c \in Clients, NEW r \in Requests, Call(c, r)
  PROVE  IInv'
<1> USE DEF IInv, Call
<1>1. LinesOK'
  <2>1. RealCells \subseteq RealCells'
    BY RealGrows
  <2> QED BY <2>1, SeqOfMore DEF LinesOK, line
<1>2. /\ queue' \in Seq(Clients) /\ Len(queue') = Len(queue) + 1 /\ queue' # << >>
      /\ \A i \in 1 .. Len(queue) : queue'[i] = queue[i]
      /\ queue'[Len(queue) + 1] = c
  BY AppendProperties DEF CallsOK
<1>3. \A i \in DOMAIN queue : queue[i] # c /\ queue[i] \in Clients
  BY DEF CallsOK
<1>4. /\ call' \in [Clients -> {{}} \cup {{q} : q \in Requests}]
      /\ call'[c] = {r} /\ \A d \in Clients : d # c => call'[d] = call[d]
  BY DEF CallsOK
<1>5. DOMAIN queue' = 1 .. Len(queue) + 1 /\ DOMAIN queue = 1 .. Len(queue) /\ Len(queue) \in Nat
  BY <1>2 DEF CallsOK
<1>6. \A i \in DOMAIN queue' : call'[queue'[i]] # {}
  <2> TAKE i \in DOMAIN queue'
  <2>1. CASE i \in DOMAIN queue
    <3>1. call'[queue[i]] = call[queue[i]] /\ call[queue[i]] # {}
      BY <2>1, <1>3, <1>4 DEF CallsOK
    <3>2. queue'[i] = queue[i]
      BY <2>1, <1>2, <1>5
    <3> QED BY <3>1, <3>2
  <2>2. CASE i = Len(queue) + 1
    <3>1. queue'[i] = c
      BY <2>2, <1>2
    <3> QED BY <3>1, <1>4
  <2>3. i \in DOMAIN queue \/ i = Len(queue) + 1
    BY <1>5
  <2> QED BY <2>1, <2>2, <2>3
<1>7. \A i, j \in DOMAIN queue' : queue'[i] = queue'[j] => i = j
  BY <1>2, <1>3, <1>5 DEF CallsOK
<1>8. CallsOK'
  BY <1>2, <1>4, <1>6, <1>7 DEF CallsOK
<1>9. ResultsOK'
  BY DEF ResultsOK, Confirmed
<1> QED BY <1>1, <1>8, <1>9

(* A call that ends leaves the queue, and what it gives is of a write done. *)
LEMMA ReturnSafe ==
  ASSUME CallsOK, ResultsOK, queue # << >>, NEW answer, Return(Head(queue), answer),
         Confirmed(answer, Head(queue)), UNCHANGED ever
  PROVE  CallsOK' /\ ResultsOK'
<1> DEFINE c == Head(queue)
<1>1. /\ c \in Clients /\ c = queue[1] /\ queue' \in Seq(Clients) /\ Len(queue') = Len(queue) - 1
      /\ \A i \in 1 .. Len(queue') : queue'[i] = queue[i + 1]
  BY HeadTailProperties DEF CallsOK, Return
<1>2. /\ DOMAIN queue' = 1 .. Len(queue) - 1 /\ DOMAIN queue = 1 .. Len(queue) /\ Len(queue) \in Nat
      /\ 1 \in DOMAIN queue
  BY <1>1 DEF CallsOK
<1>3. \A i \in DOMAIN queue' : i + 1 \in DOMAIN queue /\ queue'[i] = queue[i + 1] /\ i \in Nat
  BY <1>1, <1>2
<1>4. \A i \in DOMAIN queue' : queue'[i] # c /\ queue'[i] \in Clients
  <2> TAKE i \in DOMAIN queue'
  <2>1. i + 1 # 1 /\ i + 1 \in DOMAIN queue /\ queue'[i] = queue[i + 1] /\ i \in Nat
    BY <1>3, <1>2
  <2>2. queue[i + 1] # queue[1]
    BY <2>1, <1>2 DEF CallsOK
  <2> QED BY <2>1, <2>2, <1>1 DEF CallsOK
<1>5. /\ call' \in [Clients -> {{}} \cup {{q} : q \in Requests}]
      /\ \A d \in Clients : d # c => call'[d] = call[d]
  BY <1>1 DEF CallsOK, Return
<1>6. \A i \in DOMAIN queue' : call'[queue'[i]] # {}
  BY <1>3, <1>4, <1>5 DEF CallsOK
<1>7. \A i, j \in DOMAIN queue' : queue'[i] = queue'[j] => i = j
  <2> SUFFICES ASSUME NEW i \in DOMAIN queue', NEW j \in DOMAIN queue', queue'[i] = queue'[j]
               PROVE  i = j
    OBVIOUS
  <2>1. i + 1 = j + 1
    BY <1>3 DEF CallsOK
  <2> QED BY <2>1, <1>3
<1>8. CallsOK'
  BY <1>1, <1>5, <1>6, <1>7 DEF CallsOK, Return
<1>9. ResultsOK'
  BY <1>1 DEF ResultsOK, Confirmed, Return
<1> QED BY <1>8, <1>9

LEMMA HeadRequest ==
  ASSUME CallsOK, queue # << >>
  PROVE  /\ Head(queue) \in Clients /\ The(call[Head(queue)]) \in Requests
         /\ call[Head(queue)] = {The(call[Head(queue)])}
<1>1. Head(queue) \in Clients /\ call[Head(queue)] # {}
  <2>1. 1 \in DOMAIN queue /\ Head(queue) = queue[1]
    BY DEF CallsOK
  <2> QED BY <2>1 DEF CallsOK
<1>2. PICK r \in Requests : call[Head(queue)] = {r}
  BY <1>1 DEF CallsOK
<1> QED BY <1>1, <1>2 DEF The

LEMMA BeginInv ==
  ASSUME IInv, Begin
  PROVE  IInv'
<1> DEFINE c == Head(queue)
           s == [key |-> Key[c], request |-> The(call[c])]
<1>1. /\ queue # << >> /\ c \in Clients
      /\ s \in [key : Keys, request : Requests]
  BY HeadRequest DEF IInv, Begin, Keys
<1>2. ever' = ever /\ RealCells \subseteq RealCells'
  BY RealGrows DEF Begin, ghosts
<1>3. CASE open /\ busy' = TRUE /\ sent' = Append(sent, s) /\ UNCHANGED <<call, result, queue>>
  <2>1. LinesOK'
    BY <1>1, <1>2, <1>3, SeqOfMore, AppendProperties DEF IInv, LinesOK, Begin
  <2>2. CallsOK' /\ ResultsOK'
    BY <1>1, <1>2, <1>3 DEF IInv, CallsOK, ResultsOK, Confirmed
  <2> QED BY <2>1, <2>2 DEF IInv
<1>4. CASE ~open /\ Return(c, None) /\ UNCHANGED sent
  <2>1. LinesOK'
    BY <1>2, <1>4, SeqOfMore DEF IInv, LinesOK, Begin
  <2>2. CallsOK' /\ ResultsOK'
    BY <1>1, <1>2, <1>4, ReturnSafe DEF IInv, Confirmed, None
  <2> QED BY <2>1, <2>2 DEF IInv
<1> QED BY <1>3, <1>4 DEF Begin

(* What the parser accepts as the echo of a write is a write done. *)
LEMMA ParserConfirms ==
  ASSUME NEW c \in Clients, NEW r \in Requests, NEW cells \in Seq(RealCells)
  PROVE  Confirmed(Parser(c, r, cells), c)
<1> DEFINE p == Parser(c, r, cells)
           f == cells[1].frame
<1> SUFFICES ASSUME p.ok, NEW q \in p.request, q.kind = "write"
             PROVE  p.request = {q} /\ [unit |-> Key[c].unit, request |-> q] \in ever
  BY DEF Confirmed
<1>1. /\ IsFrame(cells) /\ f.ok /\ f.kind = r.kind /\ f.key = Key[c] /\ Fits(r, f)
  BY DEF Parser, None
<1>2. p.request = {r} /\ q = r
  BY <1>1 DEF Parser
<1>3. Real(f) /\ f.kind = "write"
  <2>1. cells # << >> /\ cells[1] \in RealCells
    BY <1>1 DEF IsFrame
  <2> QED BY <1>1, <1>2, <2>1 DEF RealCells
<1>4. q = [kind |-> "write", reg |-> f.reg, n |-> 1, vals |-> f.vals]
  <2>1. f.reg = q.reg /\ f.vals = q.vals
    BY <1>1, <1>2 DEF Fits, Reading
  <2> QED BY <1>2, <2>1 DEF Requests, Reading
<1> QED BY <1>1, <1>2, <1>3, <1>4 DEF Real, Echo

LEMMA TakeInv ==
  ASSUME IInv, busy, NEW n \in Nat, n <= Len(buffer), Take(n)
  PROVE  IInv'
<1> DEFINE c == Head(queue)
<1>1. queue # << >> /\ c \in Clients /\ The(call[c]) \in Requests
  BY HeadRequest DEF IInv, CallsOK
<1>2. ever' = ever /\ RealCells \subseteq RealCells'
  BY RealGrows DEF Take, ghosts
<1>3. SubSeq(buffer, 1, n) \in Seq(RealCells) /\ SubSeq(buffer, n + 1, Len(buffer)) \in Seq(RealCells)
  BY Cut DEF IInv, LinesOK
<1>4. LinesOK'
  BY <1>2, <1>3, SeqOfMore DEF IInv, LinesOK, Take
<1>5. CallsOK' /\ ResultsOK'
  BY <1>1, <1>2, <1>3, ParserConfirms, ReturnSafe DEF IInv, Take
<1> QED BY <1>4, <1>5 DEF IInv

LEMMA ExpectedIs ==
  ASSUME NEW r \in Requests
  PROVE  Expected(r) \in Nat /\ Expected(r) >= 2
<1>1. r.n \in {1, 2} /\ r.kind \in {"read", "bits", "write", "writes"}
  BY DEF Requests, Reading
<1> QED BY <1>1 DEF Expected, Octets

LEMMA EnoughInv ==
  ASSUME IInv, Enough
  PROVE  IInv'
<1>1. The(call[Head(queue)]) \in Requests
  BY HeadRequest DEF IInv, CallsOK, Enough
<1>2. Expected(The(call[Head(queue)])) \in Nat
  BY <1>1, ExpectedIs
<1>3. Len(buffer) \in Nat
  BY DEF IInv, LinesOK
<1> QED BY <1>2, <1>3, TakeInv DEF Enough

LEMMA TimeoutInv ==
  ASSUME IInv, Timeout
  PROVE  IInv'
<1>1. Len(buffer) \in Nat /\ Len(buffer) <= Len(buffer)
  BY DEF IInv, LinesOK
<1> QED BY <1>1, TakeInv DEF Timeout, Short

LEMMA ArriveInv ==
  ASSUME IInv, NEW n \in Nat, Arrive(n)
  PROVE  IInv'
<1>1. ever' = ever /\ RealCells \subseteq RealCells'
  BY RealGrows DEF Arrive, ghosts
<1>2. SubSeq(coming, 1, n) \in Seq(RealCells) /\ SubSeq(coming, n + 1, Len(coming)) \in Seq(RealCells)
  BY Cut DEF IInv, LinesOK, Arrive
<1>3. buffer \o SubSeq(coming, 1, n) \in Seq(RealCells)
  BY <1>2, ConcatProperties DEF IInv, LinesOK
<1>4. LinesOK'
  BY <1>1, <1>2, <1>3, SeqOfMore DEF IInv, LinesOK, Arrive
<1>5. CallsOK' /\ ResultsOK'
  BY <1>1 DEF IInv, CallsOK, ResultsOK, Confirmed, Arrive
<1> QED BY <1>4, <1>5 DEF IInv

(* Steps that leave the calls alone and lose what is on the line, if anything. *)
LEMMA LineOnly ==
  ASSUME IInv, UNCHANGED <<call, result, queue, busy, ever>>,
         registers' \in [Units -> [Regs -> Values]],
         coming' = coming \/ coming' = << >>, buffer' = buffer \/ buffer' = << >>,
         sent' \in Seq([key : Keys, request : Requests])
  PROVE  IInv'
<1>1. RealCells \subseteq RealCells'
  BY RealGrows
<1>2. coming \in Seq(RealCells') /\ buffer \in Seq(RealCells') /\ << >> \in Seq(RealCells')
  BY <1>1, SeqOfMore DEF IInv, LinesOK
<1>3. LinesOK'
  BY <1>2 DEF LinesOK
<1>4. CallsOK' /\ ResultsOK'
  BY DEF IInv, CallsOK, ResultsOK, Confirmed
<1> QED BY <1>3, <1>4 DEF IInv

LEMMA LoseInv ==
  ASSUME IInv, NEW i, Lose(i)
  PROVE  IInv'
<1> DEFINE S == [key : Keys, request : Requests]
<1>1. sent \in Seq(S) /\ i \in 1 .. Len(sent) /\ sent' = Without(i)
  BY DEF IInv, LinesOK, Lose
<1>2. sent' \in Seq(S)
  <2> HIDE DEF S
  <2> QED BY <1>1, TakenOut DEF Without
<1> QED BY <1>2, LineOnly DEF IInv, LinesOK, Lose, ghosts

LEMMA DriftInv ==
  ASSUME IInv, NEW u \in Units, NEW r \in Regs, NEW v \in Values, Drift(u, r, v)
  PROVE  IInv'
<1>1. registers' \in [Units -> [Regs -> Values]]
  BY DEF IInv, LinesOK, Drift
<1> QED BY <1>1, LineOnly DEF IInv, LinesOK, Drift, line

(* The devices answer with frames, and echo only writes that they do. *)
LEMMA WrittenType ==
  ASSUME registers \in [Units -> [Regs -> Values]],
         NEW s \in [key : Keys, request : Requests]
  PROVE  Written(s) \in [Units -> [Regs -> Values]]
<1> DEFINE r == s.request
           u == s.key.unit
<1>1. CASE r.kind \in Reading \/ ~(Span(r) \subseteq Regs)
  BY <1>1 DEF Written
<1>2. CASE r.kind \notin Reading /\ Span(r) \subseteq Regs
  <2>1. u \in Units
    BY DEF Units, Keys
  <2>2. r.reg \in Nat /\ r.n \in {1, 2} /\ r.vals \in [1 .. r.n -> Values]
    <3>1. r \in Requests
      OBVIOUS
    <3>2. r.reg \in Regs /\ r.n \in {1, 2} /\ r.vals \in [1 .. r.n -> Values]
      BY <1>2, <3>1 DEF Requests, Reading
    <3> QED BY <3>2 DEF Regs
  <2>3. \A q \in Span(r) : r.vals[q - r.reg + 1] \in Values
    <3> TAKE q \in Span(r)
    <3>1. q - r.reg + 1 \in 1 .. r.n
      BY <2>2 DEF Span
    <3> QED BY <3>1, <2>2
  <2>4. [q \in Regs |-> IF q \in Span(r) THEN r.vals[q - r.reg + 1] ELSE registers[u][q]]
          \in [Regs -> Values]
    BY <2>1, <2>3
  <2> QED BY <1>2, <2>1, <2>4 DEF Written
<1> QED BY <1>1, <1>2

LEMMA AnswerType ==
  ASSUME registers \in [Units -> [Regs -> Values]], ModbusAssumption,
         NEW s \in [key : Keys, request : Requests]
  PROVE  Answer(s, registers) \in Frames
<1> DEFINE r == s.request
           u == s.key.unit
           data == [i \in 1 .. r.n |-> registers[u][r.reg + i - 1]]
           legal == Span(r) \subseteq Regs
<1>1. /\ r.kind \in {"read", "bits", "write", "writes"} /\ r.reg \in Nat /\ r.n \in {1, 2}
      /\ r.kind = "write" => r.vals \in [1 .. 1 -> Values]
  BY DEF Requests, Reading, Regs, ModbusAssumption
<1>2. << >> \in Upto(Values)
  <2>1. << >> \in [1 .. 0 -> Values]
    OBVIOUS
  <2> QED BY <2>1 DEF Upto
<1>3. r.kind = "write" => r.vals \in Upto(Values)
  BY <1>1 DEF Upto
<1>4. legal => data \in Upto(Values)
  <2> SUFFICES ASSUME legal PROVE data \in [1 .. r.n -> Values]
    BY <1>1 DEF Upto
  <2>1. u \in Units
    BY DEF Units, Keys
  <2>2. \A i \in 1 .. r.n : r.reg + i - 1 \in Regs
    BY <1>1 DEF Span
  <2> QED BY <2>1, <2>2
<1> QED BY <1>1, <1>2, <1>3, <1>4 DEF Answer, Frames, Reading

(* The echo of a write that is done is of a write done. *)
LEMMA AnswerReal ==
  ASSUME NEW s \in [key : Keys, request : Requests],
         Answer(s, registers).ok, Answer(s, registers).kind = "write"
  PROVE  s.request.kind = "write" /\ Echo(Answer(s, registers)) = Done(s)
<1> DEFINE f == Answer(s, registers)
<1>1. /\ s.request.kind = "write" /\ f.key = s.key /\ f.reg = s.request.reg
      /\ f.vals = s.request.vals
  BY DEF Answer, Reading
<1>2. s.request = [kind |-> "write", reg |-> f.reg, n |-> 1, vals |-> f.vals]
  BY <1>1 DEF Requests, Reading
<1> QED BY <1>1, <1>2 DEF Echo, Done

(* The cells of an answer that echoes nothing but what is done. *)
LEMMA CellsReal ==
  ASSUME NEW f \in Frames, f.ok /\ f.kind = "write" => Echo(f) \in ever'
  PROVE  Cells(f) \in Seq(RealCells')
<1>1. Length(f) \in Nat
  BY DEF Length, Expected, Octets, Frames
<1>2. \A i \in 1 .. Length(f) : [frame |-> f, at |-> i] \in RealCells'
  BY DEF RealCells, Real, Echo
<1> QED BY <1>1, <1>2 DEF Cells

LEMMA CloseInv ==
  ASSUME IInv, Close
  PROVE  IInv'
  BY LineOnly DEF IInv, LinesOK, Close, ghosts

LEMMA OpenInv ==
  ASSUME IInv, Open
  PROVE  IInv'
  BY LineOnly DEF IInv, LinesOK, Open, line, ghosts

LEMMA ServeInv ==
  ASSUME IInv, ModbusAssumption, NEW i, Serve(i)
  PROVE  IInv'
<1> DEFINE S == [key : Keys, request : Requests]
           s == sent[i]
           f == Answer(s, registers)
<1>1. sent \in Seq(S) /\ i \in 1 .. Len(sent) /\ sent' = Without(i) /\ s \in S
  <2>1. sent \in Seq(S) /\ i \in DOMAIN sent /\ sent' = Without(i)
    BY DEF IInv, LinesOK, Serve
  <2> HIDE DEF S
  <2> QED BY <2>1
<1>2. sent' \in Seq(S)
  <2> HIDE DEF S, s
  <2> QED BY <1>1, TakenOut DEF Without
<1>3. registers' \in [Units -> [Regs -> Values]]
  BY <1>1, WrittenType DEF IInv, LinesOK, Serve
<1>4. ever \subseteq ever' /\ (s.request.kind = "write" => Done(s) \in ever')
  BY DEF Serve, Reading
<1>5. coming \in Seq(RealCells') /\ buffer' \in Seq(RealCells')
  BY <1>4, RealGrows, SeqOfMore DEF IInv, LinesOK, Serve
<1>6. coming' \in Seq(RealCells')
  <2>1. f \in Frames
    BY <1>1, AnswerType DEF IInv, LinesOK
  <2>2. f.ok /\ f.kind = "write" => Echo(f) \in ever'
    BY <1>1, <1>4, AnswerReal
  <2>3. Cells(f) \in Seq(RealCells')
    <3> HIDE DEF f
    <3> QED BY <2>1, <2>2, CellsReal
  <2>4. coming' = coming \/ coming' = coming \o Cells(f)
    BY DEF Serve
  <2> HIDE DEF f
  <2> QED BY <1>5, <2>3, <2>4, ConcatProperties
<1>7. LinesOK'
  BY <1>2, <1>3, <1>5, <1>6 DEF LinesOK
<1>8. CallsOK'
  BY DEF IInv, CallsOK, Serve
<1>9. ResultsOK'
  BY <1>4 DEF IInv, ResultsOK, Confirmed, Serve
<1> QED BY <1>7, <1>8, <1>9 DEF IInv

LEMMA NextInv ==
  ASSUME IInv, ModbusAssumption, [Next]_vars
  PROVE  IInv'
<1>1. CASE \E c \in Clients, r \in Requests : Call(c, r)
  BY <1>1, CallInv
<1>2. CASE Begin
  BY <1>2, BeginInv
<1>3. CASE Enough
  BY <1>3, EnoughInv
<1>4. CASE Timeout
  BY <1>4, TimeoutInv
<1>5. CASE \E n \in 1 .. 5 : Arrive(n)
  <2>1. PICK n \in 1 .. 5 : Arrive(n)
    BY <1>5
  <2>2. n \in Nat
    OBVIOUS
  <2> QED BY <2>1, <2>2, ArriveInv
<1>6. CASE Close
  BY <1>6, CloseInv
<1>7. CASE Open
  BY <1>7, OpenInv
<1>8. CASE \E i \in 1 .. MaxCalls : Serve(i) \/ Lose(i)
  BY <1>8, ServeInv, LoseInv
<1>9. CASE \E u \in Units, r \in Regs, v \in Values : Drift(u, r, v)
  BY <1>9, DriftInv
<1>10. CASE UNCHANGED vars
  BY <1>10, LineOnly DEF IInv, LinesOK, vars, line, ghosts
<1> QED BY <1>1, <1>2, <1>3, <1>4, <1>5, <1>6, <1>7, <1>8, <1>9, <1>10 DEF Next

(***************************************************************************)
(* The types: given the calls and lines above, that results have theirs    *)
(* and that the port is open while the thread waits.                       *)
(***************************************************************************)

ResultTyped(answer) == answer.ok \in BOOLEAN /\ answer.vals \in Upto(Values)
TypesOK == /\ \A c \in Clients : ResultTyped(result[c])
           /\ busy => open

LEMMA NoneTyped == ResultTyped(None)
<1>1. << >> \in [1 .. 0 -> Values]
  OBVIOUS
<1> QED BY <1>1 DEF ResultTyped, None, Upto

LEMMA DataTyped ==
  ASSUME ModbusAssumption, NEW r \in Requests, NEW f \in Frames
  PROVE  Data(r, f) \in Upto(Values)
<1>1. f.vals \in Upto(Values) /\ r.n \in 0 .. 2 /\ Off \in Values
  BY DEF Frames, Requests, ModbusAssumption
<1>2. \A i \in DOMAIN f.vals : f.vals[i] \in Values
  BY <1>1 DEF Upto
<1>3. [i \in 1 .. r.n |-> IF i \in DOMAIN f.vals THEN f.vals[i] ELSE Off] \in [1 .. r.n -> Values]
  BY <1>1, <1>2
<1>4. [1 .. r.n -> Values] \subseteq Upto(Values)
  BY <1>1 DEF Upto
<1> QED BY <1>1, <1>3, <1>4 DEF Data

LEMMA ParserTyped ==
  ASSUME ModbusAssumption, NEW c, NEW r \in Requests, NEW cells \in Seq(RealCells)
  PROVE  ResultTyped(Parser(c, r, cells))
<1>1. CASE Parser(c, r, cells) = None
  BY <1>1, NoneTyped
<1>2. CASE Parser(c, r, cells) # None
  <2>1. /\ IsFrame(cells)
        /\ Parser(c, r, cells) = [ok |-> TRUE, request |-> {r}, vals |-> Data(r, cells[1].frame)]
    BY <1>2 DEF Parser
  <2>2. cells[1].frame \in Frames
    <3>1. cells[1] \in RealCells
      BY <2>1 DEF IsFrame
    <3> QED BY <3>1 DEF RealCells
  <2> QED BY <2>1, <2>2, DataTyped DEF ResultTyped
<1> QED BY <1>1, <1>2

LEMMA ReturnTyped ==
  ASSUME IInv, TypesOK, queue # << >>, NEW answer, Return(Head(queue), answer), ResultTyped(answer)
  PROVE  TypesOK'
<1>1. \A d \in Clients : result'[d] = result[d] \/ result'[d] = answer
  BY DEF Return, IInv, ResultsOK
<1> QED BY <1>1 DEF TypesOK, ResultTyped, Return

LEMMA TakeTyped ==
  ASSUME ModbusAssumption, IInv, TypesOK, busy, NEW n \in Nat, n <= Len(buffer), Take(n)
  PROVE  TypesOK'
<1>1. queue # << >>
  BY DEF IInv, CallsOK
<1>2. SubSeq(buffer, 1, n) \in Seq(RealCells)
  BY Cut DEF IInv, LinesOK
<1>3. PICK c \in Clients, r \in Requests, cells \in Seq(RealCells) :
        c = Head(queue) /\ r = The(call[c]) /\ cells = SubSeq(buffer, 1, n)
  BY <1>1, <1>2, HeadRequest DEF IInv
<1>4. Return(Head(queue), Parser(c, r, cells)) /\ ResultTyped(Parser(c, r, cells))
  BY <1>2, <1>3, ParserTyped DEF Take
<1> QED BY <1>1, <1>4, ReturnTyped

LEMMA TypesNext ==
  ASSUME ModbusAssumption, IInv, TypesOK, [Next]_vars
  PROVE  TypesOK'
<1>1. CASE Begin
  <2>1. CASE busy' = TRUE /\ open /\ UNCHANGED <<result, open>>
    BY <2>1 DEF TypesOK
  <2>2. CASE Return(Head(queue), None) /\ queue # << >>
    BY <2>2, NoneTyped, ReturnTyped
  <2> QED BY <1>1, <2>1, <2>2 DEF Begin
<1>2. CASE Enough
  <2>1. The(call[Head(queue)]) \in Requests
    BY <1>2, HeadRequest DEF IInv, CallsOK, Enough
  <2>2. Expected(The(call[Head(queue)])) \in Nat
    BY <2>1, ExpectedIs
  <2>3. Len(buffer) \in Nat
    BY DEF IInv, LinesOK
  <2> QED BY <1>2, <2>2, <2>3, TakeTyped DEF Enough
<1>3. CASE Timeout
  <2>1. Len(buffer) \in Nat /\ Len(buffer) <= Len(buffer)
    BY DEF IInv, LinesOK
  <2> QED BY <1>3, <2>1, TakeTyped DEF Timeout, Short
<1>4. CASE UNCHANGED <<result, busy>> /\ (open => open' \/ ~busy)
  BY <1>4 DEF TypesOK
<1>5. Begin \/ Enough \/ Timeout \/ (UNCHANGED <<result, busy>> /\ (open => open' \/ ~busy))
  BY DEF Next, Call, Arrive, Close, Open, Serve, Lose, Drift, vars
<1> QED BY <1>1, <1>2, <1>3, <1>4, <1>5

(* A script makes one call at a time, its result is a value or an error,   *)
(* every call posted to the thread is of a script that waits for it, and   *)
(* the port is open while the thread waits for an answer.                  *)
THEOREM ModbusTypeOK == Spec => []TypeOK
<1>1. ModbusAssumption
  BY ModbusAssumption
<1>2. Init => IInv /\ TypesOK
  BY InitInv, NoneTyped DEF Init, TypesOK
<1>3. IInv /\ TypesOK /\ [Next]_vars => (IInv /\ TypesOK)'
  BY <1>1, NextInv, TypesNext
<1>4. IInv /\ TypesOK => TypeOK
  <2> SUFFICES ASSUME IInv, TypesOK PROVE TypeOK
    OBVIOUS
  <2>1. ASSUME NEW c \in Clients PROVE call[c] \subseteq Requests /\ Cardinality(call[c]) <= 1
    <3>1. call[c] = {} \/ \E r \in Requests : call[c] = {r}
      BY DEF IInv, CallsOK
    <3>2. CASE call[c] = {}
      BY <3>2, FS_EmptySet
    <3>3. ASSUME NEW r \in Requests, call[c] = {r}
          PROVE  call[c] \subseteq Requests /\ Cardinality(call[c]) <= 1
      <4>1. Cardinality({r}) = 1
        BY FS_Singleton
      <4> QED BY <3>3, <4>1
    <3> QED BY <3>1, <3>2, <3>3
  <2> QED BY <2>1 DEF TypeOK, TypesOK, ResultTyped, IInv, CallsOK, LinesOK
<1> QED BY <1>2, <1>3, <1>4, PTL DEF Spec

(* A single write that returns without an error was carried out by its     *)
(* unit at some time: the fixed echo that api/modbusTcp.cpp and            *)
(* modbusRtu.cpp compare byte by byte is never of a write not done,        *)
(* however many objects use the port and whatever is lost or late.         *)
THEOREM ModbusSingleWriteDone == Spec => []SingleWriteDone
<1>1. ModbusAssumption
  BY ModbusAssumption
<1>2. IInv => SingleWriteDone
  <2> SUFFICES ASSUME IInv, NEW c \in Clients, Given(c, {"write"})
               PROVE  Claim(c) \in ever
    BY DEF SingleWriteDone
  <2>1. PICK q \in result[c].request : q.kind = "write"
    BY DEF Given
  <2>2. /\ result[c].request = {q}
        /\ [unit |-> Key[c].unit, request |-> q] \in ever
    BY <2>1 DEF IInv, ResultsOK, Confirmed, Given
  <2>3. The(result[c].request) = q
    BY <2>2 DEF The
  <2> QED BY <2>2, <2>3 DEF Claim
<1>3. IInv /\ [Next]_vars => IInv'
  BY <1>1, NextInv
<1> QED BY InitInv, <1>2, <1>3, PTL DEF Spec

(***************************************************************************)
(* Until an answer is late: what is under way on the line is of the first  *)
(* call of the queue, and it is at most one request or one answer.         *)
(***************************************************************************)

UsedOK == used \in [calls : Nat, late : Nat, lost : Nat, drift : Nat, opens : Nat]

(* What a result says was so during the call. *)
Holds(c, r, vals) == IF r.kind \in Reading THEN vals \in seen[c]
                     ELSE [unit |-> Key[c].unit, request |-> r] \in carried[c]
Kept(c, answer) == answer.ok => \E r \in Requests : answer.request = {r} /\ Holds(c, r, answer.vals)

Quiet == sent = << >> /\ coming = << >> /\ buffer = << >>
Asked(c, r) == /\ sent = <<[key |-> Key[c], request |-> r]>>
               /\ coming = << >> /\ buffer = << >>
Answered(f, c, r) == /\ f.kind = r.kind /\ f.n = r.n
                     /\ f.ok => Holds(c, r, f.vals) /\ Data(r, f) = f.vals
Answering(c, r) == sent = << >> /\ \E f : Answered(f, c, r) /\ buffer \o coming = Cells(f)

Under(c, r) == open /\ (Quiet \/ Asked(c, r) \/ Answering(c, r))
Underway == IF busy THEN Under(Head(queue), The(call[Head(queue)])) ELSE Quiet
ResultsTrue == \A c \in Clients : call[c] = {} => Kept(c, result[c])
Timely == Underway /\ ResultsTrue

TInv == UsedOK /\ (used.late = 0 => Timely)

LEMMA TimelyMeans ==
  ASSUME IInv, Timely
  PROVE  ReadCurrent /\ WriteCarried /\ NothingLeft
<1>1. ASSUME NEW c \in Clients, call[c] = {}, NEW kinds, Given(c, kinds)
      PROVE  /\ The(result[c].request).kind \in kinds
             /\ Holds(c, The(result[c].request), result[c].vals)
  <2>1. PICK r \in Requests : result[c].request = {r} /\ Holds(c, r, result[c].vals)
    BY <1>1 DEF Timely, ResultsTrue, Kept, Given
  <2> QED BY <1>1, <2>1 DEF Given, The
<1>2. ReadCurrent
  BY <1>1 DEF ReadCurrent, Holds
<1>3. WriteCarried
  <2> SUFFICES ASSUME NEW c \in Clients, call[c] = {}, Given(c, {"write", "writes"})
               PROVE  Claim(c) \in carried[c]
    BY DEF WriteCarried
  <2> QED BY <1>1 DEF Holds, Reading, Claim
<1>4. NothingLeft
  BY DEF Timely, Underway, Quiet, NothingLeft
<1> QED BY <1>2, <1>3, <1>4

LEMMA TInvInit == Init => TInv
  BY DEF Init, TInv, UsedOK, Timely, Underway, Quiet, ResultsTrue, Kept, None

LEMMA UseCounts ==
  ASSUME UsedOK, NEW what \in {"calls", "late", "lost", "drift", "opens"}, NEW bound, Use(what, bound)
  PROVE  /\ UsedOK'
         /\ used'.late = IF what = "late" THEN used.late + 1 ELSE used.late
  BY DEF UsedOK, Use

(* What is under way stays so when more is seen and carried out. *)
LEMMA UnderKept ==
  ASSUME NEW c \in Clients, NEW r, Under(c, r), open', UNCHANGED line,
         seen[c] \subseteq seen'[c], carried[c] \subseteq carried'[c]
  PROVE  Under(c, r)'
<1>1. \A f : Answered(f, c, r) => Answered(f, c, r)'
  BY DEF Answered, Holds
<1> QED BY <1>1 DEF Under, Quiet, Asked, Answering, line

(* Steps in which no call begins or ends. *)
LEMMA CallsStay ==
  ASSUME IInv, Timely, UNCHANGED <<call, result, queue, busy>>,
         \A c \in Clients : IF call[c] = {} THEN seen'[c] = seen[c] /\ carried'[c] = carried[c]
                            ELSE seen[c] \subseteq seen'[c] /\ carried[c] \subseteq carried'[c]
  PROVE  /\ ResultsTrue'
         /\ busy => LET c == Head(queue) IN
                    /\ c \in Clients /\ call[c] # {} /\ The(call[c]) \in Requests
                    /\ (open' /\ UNCHANGED line => Underway')
<1>1. ResultsTrue'
  BY DEF Timely, ResultsTrue, Kept, Holds
<1>2. ASSUME busy
      PROVE  LET c == Head(queue) IN
             /\ c \in Clients /\ call[c] # {} /\ The(call[c]) \in Requests
             /\ (open' /\ UNCHANGED line => Underway')
  <2>1. queue # << >>
    BY <1>2 DEF IInv, CallsOK
  <2>2. PICK c \in Clients : c = Head(queue) /\ The(call[c]) \in Requests /\ call[c] # {}
    BY <2>1, HeadRequest DEF IInv
  <2>3. Under(c, The(call[c]))
    BY <1>2, <2>2 DEF Timely, Underway
  <2>4. seen[c] \subseteq seen'[c] /\ carried[c] \subseteq carried'[c]
    BY <2>2
  <2>5. ASSUME open', UNCHANGED line PROVE Under(c, The(call[c]))'
    <3>1. PICK r : r = The(call[c])
      OBVIOUS
    <3>2. Under(c, r)'
      BY <2>3, <2>4, <2>5, <3>1, UnderKept
    <3> QED BY <3>1, <3>2 DEF Under, Asked, Answering, Answered, Holds, Quiet
  <2> QED BY <1>2, <2>2, <2>5 DEF Underway
<1> QED BY <1>1, <1>2

LEMMA CallTimely ==
  ASSUME IInv, Timely, NEW c \in Clients, NEW r \in Requests, Call(c, r)
  PROVE  Timely'
<1>1. /\ call' = [call EXCEPT ![c] = {r}] /\ call[c] = {} /\ DOMAIN call = Clients
      /\ \A d \in Clients : d # c => seen'[d] = seen[d] /\ carried'[d] = carried[d]
      /\ UNCHANGED <<result, busy, open, line>>
  BY DEF Call, IInv, CallsOK
<1>2. ResultsTrue'
  BY <1>1 DEF Timely, ResultsTrue, Kept, Holds
<1>3. CASE ~busy
  BY <1>1, <1>2, <1>3 DEF Timely, Underway, Quiet, line
<1>4. CASE busy
  <2>1. queue # << >> /\ queue \in Seq(Clients)
    BY <1>4 DEF IInv, CallsOK
  <2>2. PICK d \in Clients : d = Head(queue) /\ call[d] # {}
    BY <2>1, HeadRequest DEF IInv
  <2>3. Head(queue') = d /\ d # c /\ call'[d] = call[d]
    BY <1>1, <2>1, <2>2 DEF Call
  <2>4. PICK q : q = The(call[d])
    OBVIOUS
  <2>5. Under(d, q)'
    <3>1. Under(d, q)
      BY <1>4, <2>2, <2>4 DEF Timely, Underway
    <3>2. open' /\ seen[d] \subseteq seen'[d] /\ carried[d] \subseteq carried'[d]
      BY <1>1, <2>3, <3>1 DEF Under
    <3> QED BY <1>1, <3>1, <3>2, UnderKept
  <2> QED BY <1>1, <1>2, <1>4, <2>3, <2>4, <2>5 DEF Timely, Underway
<1> QED BY <1>2, <1>3, <1>4 DEF Timely

(* A call that ends with a result that is true, and leaves nothing. *)
LEMMA ReturnTimely ==
  ASSUME IInv, Timely, queue # << >>, NEW answer, Return(Head(queue), answer),
         Kept(Head(queue), answer), Quiet', UNCHANGED ghosts
  PROVE  Timely'
<1>1. PICK c \in Clients : c = Head(queue)
  BY HeadRequest DEF IInv
<1>2. /\ \A d \in Clients : d # c => result'[d] = result[d] /\ call'[d] = call[d]
      /\ result'[c] = answer
  BY <1>1 DEF Return, IInv, CallsOK, ResultsOK
<1>3. ResultsTrue'
  BY <1>1, <1>2 DEF Timely, ResultsTrue, Kept, Holds, ghosts
<1> QED BY <1>3 DEF Timely, Underway, Return

LEMMA BeginTimely ==
  ASSUME IInv, Timely, Begin
  PROVE  Timely'
<1>1. PICK c \in Clients : c = Head(queue) /\ queue # << >> /\ ~busy /\ Quiet
  BY HeadRequest DEF IInv, Begin, Timely, Underway
<1>2. CASE /\ open /\ busy' = TRUE
           /\ sent' = Append(sent, [key |-> Key[c], request |-> The(call[c])])
           /\ UNCHANGED <<call, result, queue>>
  <2>1. Asked(c, The(call[c]))'
    BY <1>1, <1>2 DEF Asked, Begin, Quiet
  <2>2. ResultsTrue'
    BY <1>2 DEF Timely, ResultsTrue, Kept, Holds, Begin, ghosts
  <2> QED BY <1>1, <1>2, <2>1, <2>2 DEF Timely, Underway, Under, Begin
<1>3. CASE ~open /\ Return(c, None) /\ UNCHANGED sent
  <2>1. Kept(c, None) /\ Quiet' /\ UNCHANGED ghosts
    BY <1>1, <1>3 DEF Kept, None, Begin, Quiet
  <2> QED BY <1>1, <1>3, <2>1, ReturnTimely
<1> QED BY <1>1, <1>2, <1>3 DEF Begin

(* A whole answer is taken for what it is; less than one is refused. *)
LEMMA CellsAre ==
  ASSUME NEW f, Length(f) \in Nat
  PROVE  /\ Len(Cells(f)) = Length(f)
         /\ \A i \in 1 .. Length(f) : Cells(f)[i].frame = f
  BY DEF Cells

LEMMA LengthIs ==
  ASSUME NEW f, NEW r \in Requests, f.kind = r.kind, f.n = r.n
  PROVE  /\ Expected(r) \in Nat /\ Expected(r) >= 2
         /\ Length(f) \in Nat
         /\ Length(f) = IF f.ok THEN Expected(r) ELSE 1
<1>1. Expected(f) = Expected(r)
  BY DEF Expected, Octets
<1> QED BY <1>1, ExpectedIs DEF Length

LEMMA ParserKept ==
  ASSUME NEW c \in Clients, NEW r \in Requests, Quiet \/ Answering(c, r), coming = << >>,
         buffer \in Seq(RealCells)
  PROVE  Kept(c, Parser(c, r, buffer))
<1> DEFINE p == Parser(c, r, buffer)
<1> SUFFICES ASSUME p.ok PROVE p.request = {r} /\ Holds(c, r, p.vals)
  BY DEF Kept
<1>1. buffer # << >> /\ buffer[1].frame.ok /\ p.request = {r} /\ p.vals = Data(r, buffer[1].frame)
  BY DEF Parser, IsFrame, None
<1>2. PICK f : Answered(f, c, r) /\ buffer \o coming = Cells(f)
  BY <1>1 DEF Quiet, Answering
<1>3. buffer = Cells(f)
  BY <1>2
<1>4. 1 \in 1 .. Length(f) /\ Length(f) \in Nat
  BY LengthIs, <1>2 DEF Answered
<1>5. buffer[1].frame = f
  BY <1>3, <1>4, CellsAre
<1> QED BY <1>1, <1>2, <1>5 DEF Answered

LEMMA EnoughTimely ==
  ASSUME IInv, Timely, Enough
  PROVE  Timely'
<1> DEFINE n == Expected(The(call[Head(queue)]))
<1>1. PICK c \in Clients, r \in Requests : c = Head(queue) /\ r = The(call[c]) /\ queue # << >>
  BY HeadRequest DEF IInv, CallsOK, Enough
<1>2. Under(c, r) /\ Len(buffer) >= Expected(r) /\ buffer \in Seq(RealCells) /\ coming \in Seq(RealCells)
  BY <1>1 DEF Timely, Underway, Enough, IInv, LinesOK
<1>3. Expected(r) \in Nat /\ Expected(r) >= 2
  BY ExpectedIs
<1>4. buffer # << >>
  BY <1>2, <1>3
<1>5. PICK f : Answered(f, c, r) /\ buffer \o coming = Cells(f) /\ sent = << >>
  BY <1>2, <1>4 DEF Under, Quiet, Asked, Answering
<1>6. Len(buffer) + Len(coming) = Length(f) /\ Length(f) <= Expected(r)
  <2>1. Len(buffer \o coming) = Len(buffer) + Len(coming)
    BY <1>2, ConcatProperties
  <2>2. Length(f) \in Nat /\ Length(f) <= Expected(r)
    BY <1>5, <1>3, LengthIs DEF Answered
  <2> QED BY <1>5, <2>1, <2>2, CellsAre
<1>7. Len(coming) = 0 /\ Len(buffer) = Expected(r)
  BY <1>2, <1>3, <1>6
<1>8. coming = << >>
  BY <1>2, <1>7
<1>9. /\ SubSeq(buffer, 1, Expected(r)) = buffer
      /\ SubSeq(buffer, Expected(r) + 1, Len(buffer)) = << >>
  BY <1>2, <1>3, <1>7
<1>10. Quiet' /\ Return(c, Parser(c, r, buffer)) /\ UNCHANGED ghosts
  BY <1>1, <1>5, <1>8, <1>9 DEF Enough, Take, Quiet
<1>11. Kept(c, Parser(c, r, buffer))
  BY <1>2, <1>5, <1>8, ParserKept DEF Answering
<1> QED BY <1>1, <1>10, <1>11, ReturnTimely

LEMMA TimeoutTimely ==
  ASSUME IInv, Timely, Timeout, InTime
  PROVE  Timely'
<1>1. PICK c \in Clients, r \in Requests : c = Head(queue) /\ r = The(call[c]) /\ queue # << >>
  BY HeadRequest DEF IInv, CallsOK, Timeout, Short
<1>2. Under(c, r) /\ buffer \in Seq(RealCells) /\ coming = << >> /\ sent = << >>
  BY <1>1 DEF Timely, Underway, Timeout, Short, IInv, LinesOK, InTime
<1>3. Quiet \/ Answering(c, r)
  BY <1>2 DEF Under, Asked
<1>4. SubSeq(buffer, 1, Len(buffer)) = buffer /\ SubSeq(buffer, Len(buffer) + 1, Len(buffer)) = << >>
  BY <1>2
<1>5. Quiet' /\ Return(c, Parser(c, r, buffer)) /\ UNCHANGED ghosts
  BY <1>1, <1>2, <1>4 DEF Timeout, Take, Quiet
<1>6. Kept(c, Parser(c, r, buffer))
  BY <1>2, <1>3, ParserKept
<1> QED BY <1>1, <1>5, <1>6, ReturnTimely

(* Bytes that arrive stay in their order. *)
LEMMA Moved ==
  ASSUME NEW S, NEW b \in Seq(S), NEW m \in Seq(S), NEW n \in 1 .. Len(m)
  PROVE  (b \o SubSeq(m, 1, n)) \o SubSeq(m, n + 1, Len(m)) = b \o m
<1>1. n \in Nat /\ n <= Len(m) /\ Len(m) \in Nat
  OBVIOUS
<1>2. PICK f, g : f = SubSeq(m, 1, n) /\ g = SubSeq(m, n + 1, Len(m))
  OBVIOUS
<1>3. f \in Seq(S) /\ g \in Seq(S)
  BY <1>1, <1>2, Cut
<1>4. (b \o f) \o g = b \o (f \o g)
  BY <1>3, ConcatAssociative
<1>5. f \o g = SubSeq(m, 1, Len(m))
  <2>1. 1 \in 1 .. Len(m) + 1 /\ n \in 1 - 1 .. Len(m) /\ Len(m) \in n .. Len(m)
    BY <1>1
  <2> QED BY ONLY m \in Seq(S), <1>2, <2>1, ConcatAdjacentSubSeq
<1>6. SubSeq(m, 1, Len(m)) = m
  OBVIOUS
<1> QED BY <1>2, <1>4, <1>5, <1>6

LEMMA ArriveTimely ==
  ASSUME IInv, Timely, NEW n \in Nat \ {0}, Arrive(n)
  PROVE  Timely'
<1>1. /\ n \in 1 .. Len(coming) /\ coming \in Seq(RealCells) /\ buffer \in Seq(RealCells)
      /\ UNCHANGED <<call, result, queue, busy, open, sent, seen, carried>>
  BY DEF Arrive, IInv, LinesOK, ghosts
<1>2. coming # << >>
  BY <1>1
<1>3. busy /\ open
  BY <1>2 DEF Timely, Underway, Quiet, Arrive
<1>4. PICK c, r : Under(c, r) /\ c = Head(queue) /\ r = The(call[c])
  BY <1>3 DEF Timely, Underway
<1>5. buffer' \o coming' = buffer \o coming
  BY <1>1, Moved DEF Arrive
<1>6. PICK f : Answered(f, c, r) /\ buffer \o coming = Cells(f) /\ sent = << >>
  BY <1>2, <1>4 DEF Under, Quiet, Asked, Answering
<1>7. Answered(f, c, r)' 
  BY <1>1, <1>6 DEF Answered, Holds
<1>8. Underway'
  BY <1>1, <1>3, <1>4, <1>5, <1>6, <1>7 DEF Underway, Under, Answering
<1>9. ResultsTrue'
  BY <1>1 DEF Timely, ResultsTrue, Kept, Holds
<1> QED BY <1>8, <1>9 DEF Timely

LEMMA ServeTimely ==
  ASSUME IInv, Timely, NEW i, Serve(i)
  PROVE  Timely'
<1>1. i \in DOMAIN sent /\ UNCHANGED <<call, result, queue, busy, open, buffer>>
  BY DEF Serve
<1>2. \A d \in Clients : IF call[d] = {} THEN seen'[d] = seen[d] /\ carried'[d] = carried[d]
                         ELSE /\ seen'[d] = seen[d] \cup Contents(registers', d, The(call[d]))
                              /\ carried[d] \subseteq carried'[d]
                              /\ sent[i].request.kind \notin Reading => Done(sent[i]) \in carried'[d]
  BY DEF Serve, Noted
<1>3. ResultsTrue' /\ busy
  BY <1>1, <1>2, CallsStay DEF Timely, Underway, Quiet
<1>4. PICK c \in Clients, r \in Requests : /\ c = Head(queue) /\ r = The(call[c]) /\ call[c] # {}
                                           /\ Under(c, r)
  BY <1>1, <1>2, <1>3, CallsStay DEF Timely, Underway
<1>5. Asked(c, r) /\ open
  BY <1>1, <1>4 DEF Under, Quiet, Answering
<1>6. i = 1 /\ sent[1] = [key |-> Key[c], request |-> r]
  BY <1>1, <1>5 DEF Asked
<1>7. PICK f : f = Answer(sent[1], registers)
  OBVIOUS
<1>8. sent' = << >> /\ buffer' = << >> /\ (coming' = << >> \/ coming' = Cells(f))
  <2>1. sent' = << >>
    BY <1>5, <1>6 DEF Serve, Without, Asked
  <2>2. coming' = coming \/ coming' = coming \o Cells(f)
    BY <1>6, <1>7 DEF Serve
  <2>3. coming = << >> /\ Cells(f) = << >> \o Cells(f)
    <3>1. Length(f) \in Nat
      BY <1>6, <1>7, LengthIs DEF Answer
    <3> QED BY <1>5, <3>1 DEF Cells, Asked
  <2> QED BY <1>1, <1>5, <2>1, <2>2, <2>3 DEF Asked
<1>9. f.ok => Holds(c, r, f.vals)'
  <2> SUFFICES ASSUME f.ok PROVE Holds(c, r, f.vals)'
    OBVIOUS
  <2>1. CASE r.kind \in Reading
    <3>1. registers' = registers
      BY <1>6, <2>1 DEF Serve, Written
    <3>2. sent[1].key = Key[c] /\ sent[1].request = r
      BY <1>6
    <3>3. f.ok = (Span(r) \subseteq Regs)
      BY <1>7, <3>2 DEF Answer
    <3>4. f.vals = [k \in 1 .. r.n |-> registers[Key[c].unit][r.reg + k - 1]]
      BY <1>7, <2>1, <3>2, <3>3 DEF Answer
    <3>5. f.vals \in Contents(registers, c, r)
      BY <3>3, <3>4 DEF Contents
    <3> QED BY <1>2, <1>4, <2>1, <3>1, <3>5 DEF Holds
  <2>2. CASE r.kind \notin Reading
    BY <1>2, <1>4, <1>6, <2>2 DEF Holds, Done
  <2> QED BY <2>1, <2>2
<1>10. Answered(f, c, r)'
  <2>1. f.ok => Data(r, f) = f.vals
    <3> SUFFICES ASSUME f.ok, r.kind = "bits" PROVE Data(r, f) = f.vals
      BY DEF Data
    <3>1. r.kind \in Reading /\ sent[1].key = Key[c] /\ sent[1].request = r
      BY <1>6 DEF Reading
    <3>2. f.ok = (Span(r) \subseteq Regs)
      BY <1>7, <3>1 DEF Answer
    <3>3. f.vals = [k \in 1 .. r.n |-> registers[Key[c].unit][r.reg + k - 1]]
      BY <1>7, <3>1, <3>2 DEF Answer
    <3> QED BY <3>3 DEF Data
  <2> QED BY <1>6, <1>7, <1>9, <2>1 DEF Answered, Answer
<1>11. Under(c, r)'
  <2>1. CASE coming' = << >>
    BY <1>1, <1>5, <1>8, <2>1 DEF Under, Quiet
  <2>2. CASE coming' = Cells(f)
    <3>1. Length(f) \in Nat
      BY <1>6, <1>7, LengthIs DEF Answer
    <3>2. buffer' \o coming' = Cells(f)
      BY <1>8, <2>2, <3>1 DEF Cells
    <3> QED BY <1>1, <1>5, <1>8, <1>10, <3>2 DEF Under, Answering
  <2> QED BY <1>8, <2>1, <2>2
<1>12. Underway'
  BY <1>1, <1>3, <1>4, <1>11 DEF Underway
<1> QED BY <1>3, <1>12 DEF Timely

LEMMA LoseTimely ==
  ASSUME IInv, Timely, NEW i, Lose(i)
  PROVE  Timely'
<1>1. /\ i \in DOMAIN sent /\ sent' = Without(i)
      /\ UNCHANGED <<call, result, queue, busy, open, coming, buffer, seen, carried>>
  BY DEF Lose, ghosts
<1>2. ResultsTrue' /\ busy
  BY <1>1, CallsStay DEF Timely, Underway, Quiet
<1>3. PICK c, r : c = Head(queue) /\ r = The(call[c]) /\ Under(c, r)
  BY <1>2 DEF Timely, Underway
<1>4. Asked(c, r) /\ open
  BY <1>1, <1>3 DEF Under, Quiet, Answering
<1>5. i = 1 /\ sent' = << >>
  BY <1>1, <1>4 DEF Asked, Without
<1>6. Quiet'
  BY <1>1, <1>4, <1>5 DEF Asked, Quiet
<1> QED BY <1>1, <1>2, <1>3, <1>4, <1>6 DEF Timely, Underway, Under

LEMMA DriftTimely ==
  ASSUME IInv, Timely, NEW u, NEW r, NEW v, Drift(u, r, v)
  PROVE  Timely'
<1>1. /\ UNCHANGED <<call, result, queue, busy, open, line, carried>>
      /\ \A d \in Clients : IF call[d] = {} THEN seen'[d] = seen[d]
                            ELSE seen[d] \subseteq seen'[d]
  BY DEF Drift, Noted
<1>2. CASE busy
  <2>1. open'
    BY <1>1, <1>2 DEF Timely, Underway, Under
  <2> QED BY <1>1, <1>2, <2>1, CallsStay DEF Timely
<1>3. CASE ~busy
  BY <1>1, <1>3, CallsStay DEF Timely, Underway, Quiet, line
<1> QED BY <1>2, <1>3

(* Steps of the port between calls. *)
LEMMA PortTimely ==
  ASSUME IInv, Timely, Close \/ Open \/ UNCHANGED vars
  PROVE  Timely'
<1>1. CASE Close
  BY <1>1, CallsStay DEF Close, Timely, Underway, Quiet, ghosts
<1>2. CASE Open
  <2>1. ~busy
    BY <1>2 DEF Open, Timely, Underway, Under
  <2> QED BY <1>2, <2>1, CallsStay DEF Open, Timely, Underway, Quiet, ghosts, line
<1>3. CASE UNCHANGED vars
  BY <1>3 DEF vars, line, ghosts, Timely, Underway, Under, Quiet, Asked, Answering, Answered, Holds,
              ResultsTrue, Kept
<1> QED BY <1>1, <1>2, <1>3

LEMMA UsedNext ==
  ASSUME UsedOK, [Next]_vars
  PROVE  UsedOK' /\ (used'.late = 0 => used.late = 0)
<1>1. UNCHANGED used \/ \E what \in {"calls", "late", "lost", "drift", "opens"} :
                          \E bound : Use(what, bound)
  BY DEF Next, Call, Begin, Enough, Timeout, Arrive, Close, Open, Serve, Lose, Drift, vars
<1>2. used.late \in Nat
  BY DEF UsedOK
<1>3. CASE UNCHANGED used
  BY <1>3 DEF UsedOK
<1>4. ASSUME NEW what \in {"calls", "late", "lost", "drift", "opens"}, NEW bound, Use(what, bound)
      PROVE  UsedOK' /\ (used'.late = 0 => used.late = 0)
  BY <1>2, <1>4, UseCounts
<1> QED BY <1>1, <1>3, <1>4

LEMMA TInvNext ==
  ASSUME IInv, TInv, [Next]_vars
  PROVE  TInv'
<1>1. UsedOK /\ UsedOK' /\ (used'.late = 0 => used.late = 0)
  BY UsedNext DEF TInv
<1> SUFFICES ASSUME used'.late = 0 PROVE Timely'
  BY <1>1 DEF TInv
<1>2. Timely /\ used.late = 0
  BY <1>1 DEF TInv
<1>3. ASSUME NEW c \in Clients, NEW r \in Requests, Call(c, r) PROVE Timely'
  BY <1>2, <1>3, CallTimely
<1>4. CASE Begin
  BY <1>2, <1>4, BeginTimely
<1>5. CASE Enough
  BY <1>2, <1>5, EnoughTimely
<1>6. CASE Timeout
  <2>1. InTime
    <3> SUFFICES ASSUME ~InTime PROVE FALSE
      OBVIOUS
    <3>1. Use("late", MaxLate)
      BY <1>6 DEF Timeout
    <3>2. used'.late = used.late + 1
      BY <1>1, <3>1, UseCounts
    <3> QED BY <1>2, <3>2
  <2> QED BY <1>2, <1>6, <2>1, TimeoutTimely
<1>7. ASSUME NEW n \in 1 .. 5, Arrive(n) PROVE Timely'
  <2>1. n \in Nat \ {0}
    OBVIOUS
  <2> QED BY <1>2, <1>7, <2>1, ArriveTimely
<1>8. CASE Close \/ Open \/ UNCHANGED vars
  BY <1>2, <1>8, PortTimely
<1>9. ASSUME NEW i, Serve(i) \/ Lose(i) PROVE Timely'
  BY <1>2, <1>9, ServeTimely, LoseTimely
<1>10. ASSUME NEW u, NEW r, NEW v, Drift(u, r, v) PROVE Timely'
  BY <1>2, <1>10, DriftTimely
<1> QED BY <1>3, <1>4, <1>5, <1>6, <1>7, <1>8, <1>9, <1>10 DEF Next

(* As long as no answer has been later than the timeout, what a call       *)
(* returns was so while it ran, and nothing is left for the next one       *)
(* (api/modbusTcp.cpp, modbusRtu.cpp, modbusAscii.cpp: the length that is  *)
(* waited for, the parsers, and read(0) after the timeout), for every      *)
(* number of objects, units, registers, lost requests and answers.         *)
THEOREM ModbusTimelyResultsTrue == Spec => []TimelyResultsTrue
<1>1. ModbusAssumption
  BY ModbusAssumption
<1>2. Init => IInv /\ TInv
  BY InitInv, TInvInit
<1>3. IInv /\ TInv /\ [Next]_vars => (IInv /\ TInv)'
  BY <1>1, NextInv, TInvNext
<1>4. IInv /\ TInv => TimelyResultsTrue
  BY TimelyMeans DEF TInv, TimelyResultsTrue
<1> QED BY <1>2, <1>3, <1>4, PTL DEF Spec

=============================================================================
