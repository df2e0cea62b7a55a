-------------------------------- MODULE Port --------------------------------
(***************************************************************************)
(* One row of the port list (src/src/port/portModule.cpp) and the port     *)
(* behind it, a SerialPort, TcpClient or UdpSocket, which has a thread of  *)
(* its own.  Scripts post calls to that thread and wait for them; the main *)
(* thread posts and goes on, but waits for the thread when it removes the  *)
(* port.  The port reports whether it is active by signals that are queued *)
(* to the main thread and name the row.                                    *)
(*                                                                         *)
(* A read waits in waitForReadyRead, which handles data and errors of its  *)
(* own device and nothing else.  Bytes are numbered as they arrive; the    *)
(* receive buffer keeps the promises of BoundedQueue.                      *)
(*                                                                         *)
(* Left out: writing and logging, the monitor with its statistics, and     *)
(* calls on a port whose thread has gone.                                  *)
(***************************************************************************)
EXTENDS Naturals, Sequences

CONSTANTS Scripts,     \* threads that call the port
          Kinds,       \* of ports
          Capacity,    \* bufferSize
          Chunks,      \* how many bytes may arrive at once
          Delimited,   \* numbers of the bytes that end a delimiter
          Until,       \* readUntil's text, in the place of a length
          Reads,       \* what scripts ask for: a length or Until
          Waits,       \* and for how long: "none", "some" or "forever" (-1)
          MaxBytes,    \* bound: bytes that arrive
          MaxCalls,    \* bound: calls and signals on their way
          MaxEdits     \* bound: edits of the configuration

ASSUME PortAssumption == /\ Kinds \subseteq {"SerialPort", "TcpClient", "UdpSocket"}
                         /\ Capacity \in Nat
                         /\ Chunks \subseteq Nat \ {0}
                         /\ Until \notin Nat
                         /\ Reads \subseteq Nat \cup {Until}
                         /\ Waits \subseteq {"none", "some", "forever"}
                         /\ "main" \notin Scripts
                         /\ MaxBytes \in Nat /\ MaxCalls \in Nat /\ MaxEdits \in Nat

VARIABLES kind,       \* of this port
          device,     \* the socket: "null" until the first open, "closed", "open",
                      \* or "refused": closed, and reported as active by open
          buffer,     \* m_buffer
          put, out,   \* what the last handler stored, and what it returned
          sent,       \* number of the last byte that arrived
          gone,       \* number of the last byte that was read or thrown away
          calls,      \* posted to the port's thread
          reading,    \* the read that waits in its loop
          signals,    \* refreshPort: active or not, on the way to the main thread
          active,     \* ActiveRole of the row
          removing,   \* the main thread waits for the port's thread
          edits

queue == <<buffer, put, out>>
port == <<kind, device, queue, sent, gone, reading>>
row == <<active, removing, edits>>
vars == <<port, calls, signals, row>>

Q == INSTANCE BoundedQueue WITH queue <- buffer

Nobody == [by |-> "nobody"]
Calls == [by : Scripts \cup {"main"}, op : {"open", "close", "clear"}]
         \cup [by : Scripts, op : {"read"}, length : Reads, wait : Waits]

TypeOK == /\ kind \in Kinds
          /\ device \in {"null", "closed", "open", "refused"}
          /\ buffer \in Seq(Nat) /\ Len(buffer) <= Capacity
          /\ sent \in Nat /\ gone \in Nat
          /\ calls \in Seq(Calls)
          /\ reading \in Calls \cup {Nobody}
          /\ signals \in Seq(BOOLEAN)
          /\ active \in BOOLEAN /\ removing \in BOOLEAN
          /\ edits \in Nat

Init == /\ kind \in Kinds
        /\ device = "null"
        /\ Q!Init
        /\ sent = 0 /\ gone = 0
        /\ calls = << >>
        /\ reading = Nobody
        /\ signals = << >>
        /\ active = FALSE /\ removing = FALSE /\ edits = 0

(***************************************************************************)
(* What the handlers of the port have in common.                           *)
(***************************************************************************)

Clear == Q!Clear /\ gone' = sent'
Keep == Q!Refuse /\ UNCHANGED gone
Emit(shown) == signals' = signals \o shown

(* close of a port whose socket exists.  A TcpClient that is connected     *)
(* loses its buffer, and reports, in the handler of disconnected.          *)
SerialClose == Clear /\ Emit(<<FALSE>>)
UdpClose == Clear /\ Emit(<<FALSE>>)
TcpClose == IF device = "open" THEN Clear /\ Emit(<<FALSE, FALSE>>)
                               ELSE Keep /\ Emit(<<FALSE>>)
Close == /\ device' = "closed"
         /\ CASE kind = "SerialPort" -> SerialClose
              [] kind = "TcpClient" -> TcpClose
              [] kind = "UdpSocket" -> UdpClose

(* handleError of an open port.  Closing the TcpClient disconnects it.     *)
SerialError == Keep /\ Emit(<<FALSE>>)
UdpError == Keep /\ Emit(<<FALSE>>)
TcpError == Clear /\ Emit(<<FALSE, FALSE>>)

(* open that fails: the QSerialPort emits an error, bind does not, and an  *)
(* error of connectToHost is handled twice, unless it is a timeout.        *)
SerialFails == device' = "closed" /\ Emit(<<FALSE>>)
UdpFails == /\ device' = IF device = "refused" THEN "refused" ELSE "closed"
            /\ Emit(<< >>)
TcpFails == device' = "closed" /\ \E shown \in {<< >>, <<FALSE, FALSE>>} : Emit(shown)

(* open of a UdpSocket whose connectToHost fails at once.  handleError     *)
(* closes the socket and reports that; open, which does not look at the    *)
(* outcome, goes on and reports that the port is active.                   *)
UdpRefused == device' = "refused" /\ Clear /\ Emit(<<FALSE, TRUE>>)

(***************************************************************************)
(* The port's thread.                                                      *)
(***************************************************************************)

Serving == reading = Nobody /\ calls # << >>
Serve(op) == Serving /\ Head(calls).op = op /\ calls' = Tail(calls)

Open ==
  /\ UNCHANGED <<kind, sent>>
  /\ Serve("open")
  /\ \/ device = "open" /\ UNCHANGED device /\ Keep /\ Emit(<< >>)
     \/ device # "open" /\ device' = "open" /\ Clear /\ Emit(<<TRUE>>)
     \/ device # "open" /\ kind = "UdpSocket" /\ UdpRefused
     \/ /\ device # "open" /\ Keep
        /\ CASE kind = "SerialPort" -> SerialFails
             [] kind = "TcpClient" -> TcpFails
             [] kind = "UdpSocket" -> UdpFails
  /\ UNCHANGED <<reading, row>>

CloseCall ==
  /\ UNCHANGED <<kind, sent>>
  /\ Serve("close")
  /\ IF device = "null" THEN UNCHANGED device /\ Keep /\ Emit(<< >>) ELSE Close
  /\ UNCHANGED <<reading, row>>

ClearCall ==
  /\ Serve("clear")
  /\ UNCHANGED <<kind, device, sent, reading, signals, row>>
  /\ Clear

(* read and readUntil: nothing is read from a port that is not open. *)
ReadCall ==
  /\ Serve("read")
  /\ reading' = IF device = "open" THEN Head(calls) ELSE Nobody
  /\ Keep
  /\ UNCHANGED <<kind, device, sent, signals, row>>

(* How many bytes the read is to return, nothing as long as there are too  *)
(* few.                                                                    *)
Ends == {i \in DOMAIN buffer : buffer[i] \in Delimited}
Portion(length) == IF length = Until THEN {i \in Ends : \A j \in Ends : i <= j}
                   ELSE IF length = 0 THEN {Len(buffer)} \ {0}
                   ELSE {length} \cap DOMAIN buffer

ReadReturns ==
  /\ reading # Nobody
  /\ \E n \in Portion(reading.length) : Q!Take(n) /\ gone' = gone + n
  /\ reading' = Nobody
  /\ UNCHANGED <<kind, device, sent, calls, signals, row>>

(* Mutant: the loop does not look at its deadline. *)
ReadGivesUpAtOnce ==
  /\ reading # Nobody
  /\ Portion(reading.length) = {}
  /\ reading.wait = "none" \/ reading.length = 0
  /\ Keep
  /\ reading' = Nobody
  /\ UNCHANGED <<kind, device, sent, calls, signals, row>>

(* The deadline has expired, or nothing is waited for. *)
ReadGivesUp ==
  /\ reading # Nobody
  /\ Portion(reading.length) = {}
  /\ reading.wait # "forever" \/ reading.length = 0
  /\ Keep
  /\ reading' = Nobody
  /\ UNCHANGED <<kind, device, sent, calls, signals, row>>

Arrived(k) == [i \in 1 .. k |-> sent + i]

(* Mutant: what does not fit is dropped and the port stays open. *)
ReadyReadDrops(k) ==
  /\ device = "open"
  /\ sent + k <= MaxBytes
  /\ sent' = sent + k
  /\ IF Len(buffer) + k <= Capacity
     THEN Q!Put(Arrived(k)) /\ UNCHANGED <<device, gone, signals>>
     ELSE Keep /\ UNCHANGED <<device, signals>>
  /\ UNCHANGED <<kind, calls, reading, row>>

(* handleReadyRead: when the buffer refuses the chunk the port is closed.  *)
ReadyRead(k) ==
  /\ device = "open"
  /\ sent + k <= MaxBytes
  /\ sent' = sent + k
  /\ IF Len(buffer) + k <= Capacity
     THEN Q!Put(Arrived(k)) /\ UNCHANGED <<device, gone, signals>>
     ELSE Close
  /\ UNCHANGED <<kind, calls, reading, row>>

Error ==
  /\ device = "open"
  /\ device' = "closed"
  /\ UNCHANGED <<kind, sent>>
  /\ CASE kind = "SerialPort" -> SerialError
       [] kind = "TcpClient" -> TcpError
       [] kind = "UdpSocket" -> UdpError
  /\ UNCHANGED <<calls, reading, row>>

(***************************************************************************)
(* Scripts and the main thread.                                            *)
(***************************************************************************)

Waiting(s) == reading.by = s \/ \E i \in DOMAIN calls : calls[i].by = s
Room == Len(calls) + Len(signals) < MaxCalls

Script(s) ==
  /\ Room
  /\ ~Waiting(s)
  /\ \E c \in Calls : c.by = s /\ calls' = Append(calls, c)
  /\ UNCHANGED <<port, signals, row>>

(* portToggle goes by the row. *)
Toggle ==
  /\ Room
  /\ ~removing
  /\ calls' = Append(calls, [by |-> "main", op |-> IF active THEN "close" ELSE "open"])
  /\ UNCHANGED <<port, signals, row>>

Refresh ==
  /\ ~removing
  /\ signals # << >>
  /\ active' = Head(signals)
  /\ signals' = Tail(signals)
  /\ UNCHANGED <<port, calls, removing, edits>>

(* portEdit: _portRemove takes the row away, asks the thread to quit and   *)
(* waits for it.                                                           *)
Edit ==
  /\ ~removing
  /\ edits < MaxEdits
  /\ edits' = edits + 1
  /\ removing' = TRUE
  /\ UNCHANGED <<port, calls, signals, active>>

(* The port is deleted when its thread has finished, and its destructor    *)
(* closes it.  Mutant (DestroyedInSilence): the destructor does not.       *)
DestroyedInSilence == Emit(<< >>)
Destroyed == CASE device = "null" -> Emit(<< >>)
               [] device = "open" /\ kind = "TcpClient" -> Emit(<<FALSE, FALSE>>)
               [] OTHER -> Emit(<<FALSE>>)

(* The event loop ends between two calls, whether it got to the others or  *)
(* not; their callers are let go.  _portInsert makes a new port and a row  *)
(* of the same name, for which signals of the old port are taken.          *)
Inserted ==
  /\ removing
  /\ reading = Nobody
  /\ removing' = FALSE
  /\ active' = FALSE
  /\ device' = "null"
  /\ calls' = << >>
  /\ UNCHANGED <<kind, sent, reading, edits>>
  /\ Clear
  /\ Destroyed

PortThread == Open \/ CloseCall \/ ClearCall \/ ReadCall
ReadEnds == ReadReturns \/ ReadGivesUp
World == (\E k \in Chunks : ReadyRead(k)) \/ Error
Main == Toggle \/ Edit \/ Refresh \/ Inserted

Next == PortThread \/ ReadEnds \/ World \/ Main \/ \E s \in Scripts : Script(s)

(* Threads run and deadlines expire.  An event loop that is asked to quit  *)
(* looks at that after every call.                                         *)
Fairness == /\ WF_vars(PortThread)
            /\ WF_vars(ReadEnds)
            /\ WF_vars(Refresh)
            /\ SF_vars(Inserted)

Spec == Init /\ [][Next]_vars
FairSpec == Spec /\ Fairness

(***************************************************************************)
(* Properties.                                                             *)
(***************************************************************************)

(* What an open port has received since it was last opened or cleared, and *)
(* has not returned yet, is in its buffer, without a gap: no chunk is      *)
(* dropped, nor any byte of an earlier session kept.                       *)
NoGap == device = "open" => buffer = [i \in 1 .. sent - gone |-> gone + i]

(* When no signal is on its way the switch of the row shows whether the    *)
(* port is open, whatever opened or closed it, and also after an edit,     *)
(* when signals of the old port are still taken for the new one.  A        *)
(* UdpSocket that was refused in open is shown as open.                    *)
SwitchShowsPort ==
  ~removing /\ signals = << >> => (active <=> device \in {"open", "refused"})

(* What the switch is for, and what fails for the refused UdpSocket.       *)
SwitchMeansOpen == ~removing /\ signals = << >> => (active <=> device = "open")

(* Nobody waits for the thread of the port for ever: a script that calls   *)
(* the port gets an answer, and the main thread, which waits while it      *)
(* removes the port, gets on.                                              *)
WaitsEnd == /\ \A s \in Scripts : Waiting(s) ~> ~Waiting(s)
            /\ removing ~> ~removing
=============================================================================
