--------------------------- MODULE LanguageClient ---------------------------
(***************************************************************************)
(* The client of a language server (service/lsp/languageServer.cpp), the   *)
(* code document whose text it sends (document/module/codeWidget.cpp) and  *)
(* the server.  Two pipes join client and server.  What the server writes  *)
(* comes in chunks that end anywhere in a message, and each chunk makes    *)
(* the parser go through the buffer in one call.                           *)
(*                                                                         *)
(* A text is the set of the edits in it.  The server answers requests in   *)
(* any order, and may die.                                                 *)
(*                                                                         *)
(* Left out: notifications and requests of the server, of which none       *)
(* changes what is modelled; requests that only show their answer; files   *)
(* that are not of the server's language.                                  *)
(***************************************************************************)
EXTENDS Naturals, Sequences, Functions

CONSTANTS OnChange,   \* the methods asked for when the content has changed
          OnChar,     \* and for a character that may complete a word
          Skipping,   \* methods whose handler leaves the parser at a null result
          Nulls,      \* methods the server may have nothing to say to
          Crashes,    \* whether the server may die
          MaxEdits,   \* bound: edits of the user
          MaxFormats  \* bound: requests to format

Methods == {"initialize", "shutdown", "formatting", "completion", "semanticTokens"}

ASSUME LanguageAssumption == /\ OnChange \in Seq(Methods) /\ OnChar \in Seq(Methods)
                             /\ Crashes \in BOOLEAN
                             /\ MaxEdits \in Nat /\ MaxFormats \in Nat

VARIABLES phase,      \* of the main thread
          session,    \* the server is in m_session
          opened,     \* didOpen has been sent
          nextId,     \* m_id
          methods,    \* m_methods
          typed,      \* edits of the user so far
          formats,    \* and his requests to format
          text,       \* of the document
          timer,      \* m_contentTimer runs
          toServer,   \* written to the process and not read by it
          toClient,   \* written by the process and not read
          split,      \* but for the first part of the first message
          buffer,     \* complete messages in m_buffer
          process,    \* "none", "running" or "ended"
          copy,       \* the server's text of the document
          working     \* requests the server has read and not answered

client == <<phase, session, opened, nextId, methods>>
document == <<typed, formats, text, timer>>
arriving == <<toClient, split, buffer>>
server == <<process, copy, working>>
vars == <<client, document, toServer, arriving, server>>

Texts == SUBSET (1 .. MaxEdits)
Requests == [kind : {"request"}, id : Nat, method : Methods]
Messages == Requests \cup [kind : {"change"}, text : Texts] \cup [kind : {"exit"}]
(* A result is null, which is {}, or the set of one text. *)
Answers == [id : Nat, result : {{}} \cup {{t} : t \in Texts}]

TypeOK == /\ phase \in {"starting", "initializing", "running", "shutdown", "exit", "closed"}
          /\ session \in BOOLEAN /\ opened \in BOOLEAN /\ timer \in BOOLEAN
          /\ nextId \in Nat
          /\ DOMAIN methods \subseteq 0 .. nextId - 1
          /\ \A i \in DOMAIN methods : methods[i] \in Methods
          /\ typed \in 0 .. MaxEdits /\ formats \in 0 .. MaxFormats
          /\ text \in Texts /\ copy \in Texts
          /\ toServer \in Seq(Messages)
          /\ toClient \in Seq(Answers) /\ buffer \in Seq(Answers)
          /\ split \in BOOLEAN
          /\ process \in {"none", "running", "ended"}
          /\ working \subseteq Requests

Init == /\ phase = "starting" /\ session = FALSE /\ opened = FALSE
        /\ nextId = 0 /\ methods = << >>
        /\ typed = 0 /\ formats = 0 /\ text = {} /\ timer = FALSE
        /\ toServer = << >> /\ toClient = << >> /\ split = FALSE /\ buffer = << >>
        /\ process = "none" /\ copy = {} /\ working = {}

(***************************************************************************)
(* What the client writes.                                                 *)
(***************************************************************************)

Change == <<[kind |-> "change", text |-> text']>>
Request(i, m) == [kind |-> "request", id |-> i, method |-> m]

(* jsonNotification and jsonRequest. *)
Write(messages) ==
  toServer' = IF process' = "running" THEN toServer \o messages ELSE toServer
(* Mutant: the method is kept under the next id. *)
AskNext(notes, ms) ==
  LET ids == nextId .. nextId + Len(ms) - 1
  IN  /\ nextId' = nextId + Len(ms)
      /\ methods' = [i \in DOMAIN methods \cup {j + 1 : j \in ids} |->
                       IF i - 1 \in ids THEN ms[i - nextId] ELSE methods[i]]
      /\ Write(notes \o [n \in DOMAIN ms |-> Request(nextId + n - 1, ms[n])])
Ask(notes, ms) ==
  LET ids == nextId .. nextId + Len(ms) - 1
  IN  /\ nextId' = nextId + Len(ms)
      /\ methods' = [i \in DOMAIN methods \cup ids |->
                       IF i \in ids THEN ms[i - nextId + 1] ELSE methods[i]]
      /\ Write(notes \o [n \in DOMAIN ms |-> Request(nextId + n - 1, ms[n])])
(* LSPManager passes on what is for a server it has. *)
AskManager(notes, ms) ==
  IF session THEN Ask(notes, ms) ELSE UNCHANGED <<nextId, methods, toServer>>

(***************************************************************************)
(* The main thread.                                                        *)
(***************************************************************************)

(* initialize goes on in a loop of its own until the answer comes. *)
Start ==
  /\ phase = "starting"
  /\ UNCHANGED <<session, opened, document, arriving, copy, working>>
  /\ \/ process' = "running" /\ phase' = "initializing" /\ Ask(<< >>, <<"initialize">>)
     \/ UNCHANGED <<process, nextId, methods, toServer>> /\ phase' = "running"

(* A document that is opened is sent, and all is asked for. *)
Open ==
  /\ phase = "running" /\ ~opened
  /\ opened' = TRUE
  /\ UNCHANGED <<phase, session, document, arriving, server>>
  /\ AskManager(Change \o Change, OnChange)

Edit(sent, ms) ==
  /\ phase = "running" /\ opened
  /\ typed < MaxEdits
  /\ typed' = typed + 1
  /\ text' = text \cup {typed'}
  /\ timer' = TRUE
  /\ UNCHANGED <<phase, session, opened, formats, arriving, server>>
  /\ IF sent THEN AskManager(Change, ms) ELSE UNCHANGED <<nextId, methods, toServer>>

(* charAdd, and an edit that adds no character, like a paste. *)
Type == Edit(TRUE, OnChar)
Paste == Edit(FALSE, << >>)

(* contentChange, half a second after the last edit.  Timers fire while    *)
(* the main thread waits in shutdown, too.                                 *)
ContentChange ==
  /\ timer /\ phase # "closed"
  /\ timer' = FALSE
  /\ UNCHANGED <<phase, session, opened, typed, formats, text, arriving, server>>
  /\ AskManager(Change, OnChange)

Format ==
  /\ phase = "running" /\ opened
  /\ formats < MaxFormats
  /\ formats' = formats + 1
  /\ UNCHANGED <<phase, session, opened, typed, text, timer, arriving, server>>
  /\ AskManager(<< >>, <<"formatting">>)

(* shutdown waits for the answer, and then for the end of the process. *)
Shutdown ==
  /\ phase = "running"
  /\ UNCHANGED <<session, opened, document, arriving, server>>
  /\ IF session /\ process = "running"
     THEN phase' = "shutdown" /\ Ask(<< >>, <<"shutdown">>)
     ELSE phase' = "closed" /\ UNCHANGED <<nextId, methods, toServer>>

Finished ==
  /\ phase = "exit"
  /\ process # "running"
  /\ phase' = "closed"
  /\ UNCHANGED <<session, opened, nextId, methods, document, toServer, arriving, server>>

(***************************************************************************)
(* parser.                                                                 *)
(***************************************************************************)

Leaves(a) == a.result = {} /\ methods[a.id] \in Skipping
(* How many messages one call handles: all, or those up to one at which    *)
(* the handler returns.                                                    *)
Handled(messages) ==
  {n \in DOMAIN messages : /\ n = Len(messages) \/ Leaves(messages[n])
                           /\ \A j \in 1 .. n - 1 : ~Leaves(messages[j])}

AnswersTo(m, messages) == {j \in DOMAIN messages : methods[messages[j].id] = m}
Formatted(messages) == {j \in AnswersTo("formatting", messages) : messages[j].result # {}}

Last(J) == {j \in J : \A i \in J : i <= j}

(* Mutant: the text is set behind the editor's back. *)
SetTextQuietly(messages) ==
  IF Formatted(messages) = {} THEN UNCHANGED <<text, timer>>
  ELSE UNCHANGED timer /\ \E j \in Last(Formatted(messages)) : text' \in messages[j].result

(* formattingResponse sets the whole text, which starts the timer. *)
SetText(messages) ==
  IF Formatted(messages) = {} THEN UNCHANGED <<text, timer>>
  ELSE timer' = TRUE /\ \E j \in Last(Formatted(messages)) : text' \in messages[j].result

Handle(messages) ==
  /\ SetText(messages)
  /\ methods' = Restrict(methods, DOMAIN methods \ {messages[j].id : j \in DOMAIN messages})
  /\ IF AnswersTo("initialize", messages) # {}
     THEN phase' = "running" /\ session' = TRUE /\ UNCHANGED toServer
     ELSE IF AnswersTo("shutdown", messages) # {}
     THEN phase' = "exit" /\ Write(<<[kind |-> "exit"]>>) /\ UNCHANGED session
     ELSE UNCHANGED <<phase, session, toServer>>

(* Mutant: the part of a message that has come is thrown away. *)
RestForgotten(k, part) == SubSeq(toClient, IF part THEN k + 2 ELSE k + 1, Len(toClient))

(* What has not come: the part of a message that has stays in m_buffer. *)
Rest(k, part) == SubSeq(toClient, k + 1, Len(toClient))

(* A chunk: k messages, and perhaps part of the next one. *)
Chunk(k) ==
  LET all == buffer \o SubSeq(toClient, 1, k)
  IN  /\ k > 0 \/ ~split
      /\ split' \in {k = 0, k < Len(toClient)}
      /\ toClient' = Rest(k, split')
      /\ UNCHANGED <<opened, nextId, typed, formats, server>>
      /\ IF all = << >> THEN UNCHANGED <<phase, session, methods, text, timer, toServer, buffer>>
         ELSE \E n \in Handled(all) : /\ buffer' = SubSeq(all, n + 1, Len(all))
                                      /\ Handle(SubSeq(all, 1, n))
Parser == toClient # << >> /\ \E k \in 0 .. Len(toClient) : Chunk(k)

(***************************************************************************)
(* The server.                                                             *)
(***************************************************************************)

Take ==
  /\ process = "running" /\ toServer # << >>
  /\ toServer' = Tail(toServer)
  /\ LET message == Head(toServer)
     IN  CASE message.kind = "change" -> copy' = message.text /\ UNCHANGED <<process, working>>
           [] message.kind = "request" -> working' = working \cup {message} /\ UNCHANGED <<process, copy>>
           [] message.kind = "exit" -> process' = "ended" /\ working' = {} /\ UNCHANGED copy
  /\ UNCHANGED <<client, document, arriving>>

Answer ==
  /\ process = "running"
  /\ \E r \in working, result \in {{}, {copy}} :
       /\ result = {} => r.method \in Nulls
       /\ working' = working \ {r}
       /\ toClient' = Append(toClient, [id |-> r.id, result |-> result])
  /\ UNCHANGED <<client, document, toServer, split, buffer, process, copy>>

Crash ==
  /\ Crashes
  /\ process = "running"
  /\ process' = "ended"
  /\ toServer' = << >> /\ working' = {}
  /\ UNCHANGED <<client, document, arriving, copy>>

User == Open \/ Type \/ Paste \/ Format \/ Shutdown
Server == Take \/ Answer
Next == Start \/ User \/ ContentChange \/ Finished \/ Parser \/ Server \/ Crash

(* Timers expire, chunks arrive and the server works. *)
Fairness == /\ WF_vars(Start)
            /\ WF_vars(ContentChange)
            /\ WF_vars(Finished)
            /\ WF_vars(Parser)
            /\ WF_vars(Take) /\ WF_vars(Answer)

Spec == Init /\ [][Next]_vars
FairSpec == Spec /\ Fairness

(***************************************************************************)
(* Properties.                                                             *)
(***************************************************************************)

Asked == working \cup {toServer[i] : i \in {j \in DOMAIN toServer : toServer[j].kind = "request"}}
Answered == {toClient[i].id : i \in DOMAIN toClient} \cup {buffer[i].id : i \in DOMAIN buffer}

(* m_methods has the method of every request whose answer is yet to be     *)
(* handled, the one it was asked with, and of no other as long as the      *)
(* server lives.                                                           *)
AnswersMatch ==
  /\ Answered \cap {r.id : r \in Asked} = {}
  /\ Answered \subseteq DOMAIN methods
  /\ \A r \in Asked : r.id \in DOMAIN methods /\ methods[r.id] = r.method
  /\ process = "running" => DOMAIN methods = Answered \cup {r.id : r \in Asked}

(* The text the server will have when it has read what it was sent is that *)
(* of the document, unless the timer is about to send it.                  *)
Changes == {i \in DOMAIN toServer : toServer[i].kind = "change"}
InSync == opened /\ session /\ process = "running" /\ ~timer
          => IF Changes = {} THEN copy = text
             ELSE \E i \in Last(Changes) : toServer[i].text = text

(* No edit of the user gets lost. *)
TypingKept == text = 1 .. typed

(* The program starts, and it ends. *)
InitializeEnds == phase = "initializing" ~> phase # "initializing"
ShutdownEnds == phase = "shutdown" ~> phase = "closed"

(* Every request gets its answer handled, unless the program ends first. *)
AnswersCome == DOMAIN methods # {} ~> DOMAIN methods = {} \/ phase \in {"exit", "closed"}
=============================================================================
