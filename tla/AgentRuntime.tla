---------------------------- MODULE AgentRuntime ----------------------------
(***************************************************************************)
(* src/src/agent/runtime/runtimeModule.cpp: the state machine that runs    *)
(* one turn of an agent: stateSet, _request and its finished and readyRead *)
(* handlers, retry, and toolResultSet; with the part of the conversation   *)
(* in the database it reads and writes, and the front end's gates.         *)
(*                                                                         *)
(* Everything runs on one thread, so an action is one call from the event  *)
(* loop: the front end calling in, or a reply, a timer or a tool's future  *)
(* coming back.  stateSet calls itself; a chain of such calls is one       *)
(* action, and the operators named Enter... are the states of a chain.     *)
(* What the runtime waits for is in pending, and an answer may come back   *)
(* long after the turn that asked for it has gone.                         *)
(*                                                                         *)
(* Messages keep what the control looks at; their text, the usage figures, *)
(* the planning reminder and what is only shown are left out.              *)
(***************************************************************************)
EXTENDS Naturals, Sequences, FiniteSets

CONSTANTS Primary,       \* TRUE: the user's runtime, FALSE: a sub-agent
          Tools,         \* tool names
          Plan, Ask,     \* plan_update and user_input_request
          Approved,      \* the tools permissionGet lets run unasked
          Batches,       \* the sequences of calls one answer may make
          CallLimit,     \* toolCallLimit
          FailureLimit,  \* toolFailureLimit
          MaxTurns, MaxCompacts, MaxSteers, MaxRollbacks,  \* bounds on the user
          MaxCalls       \* bound on the calls the model makes in one turn

ASSUME AgentAssumption == /\ Primary \in BOOLEAN
                          /\ Plan \in Tools /\ Ask \in Tools /\ Plan # Ask
                          /\ Approved \subseteq Tools
                          /\ Batches \subseteq Seq(Tools) \ {<< >>}
                          /\ CallLimit \in Nat \ {0}
                          /\ FailureLimit \in Nat \ {0}

VARIABLES state,       \* m_state
          turn,        \* m_turn
          pending,     \* replies, timers, futures and cards not yet answered
          reply,       \* m_reply: it points to something while that is pending
          log,         \* the turns of the conversation in the database
          history,     \* their messages; a sub-agent's are not stored
          compacted,   \* its compacted_turn_id, 0 for none
          usage,       \* whether the usage shown is above zero; the stored figure
                       \* that triggers compaction is above zero only when it is
          created,     \* turns created so far; a turn's id is its number
          compacts,    \* manual compactions so far
          rollbacks,   \* turns taken back so far
          summary,     \* the turns merged into the stored summary
          steered,     \* texts the user added to the run in progress
          consents     \* the calls the user approved

conversation == <<compacted, summary>>
user == <<created, compacts, rollbacks, steered>>
vars == <<state, turn, pending, reply, log, history, conversation, usage, user,
          consents>>

RetryLimit == 2

Status == {"Completed", "Aborted", "Error"}
Streaming == {"Request", "Think", "Response"}

(* What can be pending, and the turn that asked for it.  index is the      *)
(* assistant message a stream fills, or the tool call of the turn that is  *)
(* executed or asked about; run tells two objects of one kind apart.       *)
Pending == [kind : {"compact", "stream", "compactTimer", "streamTimer",
                    "tool", "permission", "input"},
            turn : Nat, index : Nat, retries : 0 .. RetryLimit, run : Nat]
Replies == {"compact", "stream"}
TimerOf == [compact |-> "compactTimer", stream |-> "streamTimer"]
Timers == {"compactTimer", "streamTimer"}
Cards == {"permission", "input"}

(* filled: the texts of a user message, the calls an assistant message     *)
(* made, and whether a tool message has its result.                        *)
Message(role, filled) == [role |-> role, filled |-> filled]

NoTurn == [id |-> 0, compacted |-> 0, messages |-> << >>, steering |-> 0,
           seen |-> {}, questions |-> TRUE, callCount |-> 0, calls |-> << >>,
           index |-> 1, failedTool |-> {}, failures |-> 0]

NewTurn == [NoTurn EXCEPT !.id = created + 1,
                          !.messages = <<Message("user", 1)>>]

Run == created + compacts

Init == /\ state = "Ready"
        /\ turn = NoTurn
        /\ pending = {}
        /\ reply = {}
        /\ log = << >>
        /\ history = << >>
        /\ compacted = 0
        /\ usage = FALSE
        /\ created = 0
        /\ compacts = 0
        /\ rollbacks = 0
        /\ summary = {}
        /\ steered = 0
        /\ consents = {}

(***************************************************************************)
(* The states of a chain of stateSet calls.  t is the turn on entry, rest  *)
(* what stays pending.                                                     *)
(***************************************************************************)

(* Complete, then Ready.  A manual compaction has no turn to record. *)
EnterComplete(t, status, rest) ==
    /\ state' = "Ready"
    /\ turn' = NoTurn
    /\ pending' = rest
    /\ log' = IF t.id = 0 THEN log
              ELSE Append(log, [turn |-> t.id, status |-> status])
    /\ history' = IF t.id = 0 \/ ~Primary THEN history
                  ELSE Append(history, t.messages)
    /\ UNCHANGED reply

EnterError(t, rest) == EnterComplete(t, "Error", rest)

(* _request: a reply is pending, and m_reply points to it. *)
Post(kind, t, index, retries, run, rest) ==
    LET r == [kind |-> kind, turn |-> t.id, index |-> index,
              retries |-> retries, run |-> run]
    IN /\ pending' = rest \cup {r}
       /\ reply' = {r}

(* Request: waiting steering texts become a user message, the context is   *)
(* built, and the message that will hold the answer is appended.           *)
EnterRequest(t, run, rest) ==
    LET heard == IF t.steering = 0 THEN t.messages
                 ELSE Append(t.messages, Message("user", t.steering))
    IN /\ state' = "Request"
       /\ turn' = [t EXCEPT !.messages = Append(heard, Message("assistant", 0)),
                            !.steering = 0, !.seen = {}]
       /\ Post("stream", t, Len(heard) + 1, 0, run, rest)
       /\ UNCHANGED <<log, history>>

(* Mutant: the turn after the compacted one is skipped too. *)
UncompactedOffByOne == IF compacted = 0 THEN 1 .. Len(log)
                       ELSE {i \in 1 .. Len(log) :
                                \E j \in 1 .. i - 2 : log[j].turn = compacted}

(* The turns of the conversation that are not covered by its summary: they *)
(* follow the compacted turn.  When that turn is not found none is left.   *)
Uncompacted == IF compacted = 0 THEN 1 .. Len(log)
               ELSE {i \in 1 .. Len(log) :
                        \E j \in 1 .. i - 1 : log[j].turn = compacted}

(* Compact: about half of the uncompacted history, cut at the end of a     *)
(* turn; any cut can be the half.  Nothing to compact leaves no turn id.   *)
EnterCompact(t, run, rest) ==
    \E cut \in IF Uncompacted = {} THEN {0} ELSE {log[i].turn : i \in Uncompacted} :
        /\ state' = "Compact"
        /\ turn' = [t EXCEPT !.compacted = cut]
        /\ Post("compact", t, 0, 0, run, rest)
        /\ UNCHANGED <<log, history>>

(* Calls that ToolCall answers at once: a question after the user has      *)
(* disabled them, a plan update in a mode that permits no tool.            *)
Immediate(t, k) == \/ t.calls[k].tool = Ask /\ ~t.questions
                   \/ t.calls[k].tool = Plan /\ Plan \notin Approved

(* Mutant: a result goes to the first call of the same tool. *)
FilledByTool(t, from, to) ==
    [m \in 1 .. Len(t.messages) |->
        IF \E k \in from .. to, first \in 1 .. Len(t.calls) :
              /\ t.calls[first].tool = t.calls[k].tool
              /\ \A j \in 1 .. first - 1 : t.calls[j].tool # t.calls[k].tool
              /\ t.calls[first].message = m
        THEN [t.messages[m] EXCEPT !.filled = 1] ELSE t.messages[m]]

(* The calls from..to have their results in their messages. *)
Filled(t, from, to) ==
    [m \in 1 .. Len(t.messages) |->
        IF \E k \in from .. to : t.calls[k].message = m
        THEN [t.messages[m] EXCEPT !.filled = 1] ELSE t.messages[m]]

(* Calls from..to are answered, the last failed or not: toolResultSet up   *)
(* to its checks.                                                          *)
Answered(t, from, to) ==
    IF to < from THEN t
    ELSE [t EXCEPT !.messages = Filled(t, from, to), !.index = to + 1,
                   !.failedTool = {}, !.failures = 0]

(* ToolCall, and what it leads to.  Calls answered at once are passed; n   *)
(* is the call that is not, or one past the last.                          *)
EnterToolCall(t, run, rest) ==
    \E n \in t.index .. Len(t.calls) + 1 :
        LET u == Answered(t, t.index, n - 1)
            Wait(where, kind) ==
                /\ state' = where
                /\ turn' = u
                /\ pending' = rest \cup {[kind |-> kind, turn |-> t.id, index |-> n,
                                          retries |-> 0, run |-> run]}
                /\ UNCHANGED <<reply, log, history>>
        IN /\ \A k \in t.index .. n - 1 : Immediate(t, k)
           /\ \/ /\ n > Len(t.calls)
                 /\ EnterRequest(u, run, rest)
              \/ /\ n <= Len(t.calls)
                 /\ ~Immediate(t, n)
                 /\ \/ /\ t.calls[n].tool = Ask
                       /\ Wait("UserInput", "input")
                    \/ /\ t.calls[n].tool \in Approved \ {Ask}
                       /\ Wait("ToolExec", "tool")
                    \/ /\ t.calls[n].tool \notin Approved \cup {Ask}
                       /\ Wait("Permission", "permission")

(* Mutant: the call limit is compared with >. *)
ToolResultSetOffByOne(t, success, run, rest) ==
    LET tool == t.calls[t.index].tool
        done == [Answered(t, t.index, t.index) EXCEPT
                    !.failedTool = IF success THEN {} ELSE {tool},
                    !.failures = IF success THEN 0
                                 ELSE IF t.failedTool = {tool} THEN t.failures + 1
                                 ELSE 1]
    IN IF done.failures >= FailureLimit \/ done.callCount > CallLimit
       THEN EnterError(done, rest)
       ELSE EnterToolCall(done, run, rest)

(* toolResultSet for the call at t.index. *)
ToolResultSet(t, success, run, rest) ==
    LET tool == t.calls[t.index].tool
        done == [Answered(t, t.index, t.index) EXCEPT
                    !.failedTool = IF success THEN {} ELSE {tool},
                    !.failures = IF success THEN 0
                                 ELSE IF t.failedTool = {tool} THEN t.failures + 1
                                 ELSE 1]
    IN IF done.failures >= FailureLimit \/ done.callCount >= CallLimit
       THEN EnterError(done, rest)
       ELSE EnterToolCall(done, run, rest)

(***************************************************************************)
(* The front end.                                                          *)
(***************************************************************************)

(* AgentModule::pre, with no model selected: the state machine passes      *)
(* through Error and Complete without a turn.                              *)
PreWithoutModel ==
    /\ Primary /\ state = "Ready"
    /\ turn' = NoTurn
    /\ UNCHANGED <<state, pending, reply, log, history, conversation, usage, user,
                   consents>>

(* AgentModule::pre: the front end sends only when the state is Ready. *)
Pre ==
    /\ Primary /\ state = "Ready" /\ created < MaxTurns
    /\ created' = created + 1
    /\ steered' = 0
    /\ \/ EnterRequest(NewTurn, Run + 1, pending)
       \/ usage /\ EnterCompact(NewTurn, Run + 1, pending)
    /\ UNCHANGED <<conversation, usage, compacts, rollbacks, consents>>

(* request: a sub-agent starts on its one task. *)
Dispatch ==
    /\ ~Primary /\ created = 0
    /\ created' = 1
    /\ EnterRequest(NewTurn, Run + 1, pending)
    /\ UNCHANGED <<conversation, usage, compacts, rollbacks, steered, consents>>

(* AgentModule::compact: offered when Ready and some usage is shown. *)
ManualCompact ==
    /\ Primary /\ state = "Ready" /\ usage /\ compacts < MaxCompacts
    /\ compacts' = compacts + 1
    /\ EnterCompact(turn, Run + 1, pending)
    /\ UNCHANGED <<conversation, usage, created, rollbacks, steered, consents>>

(* AgentModule::steer: a text sent when the state is not Ready. *)
Steer ==
    /\ Primary /\ state # "Ready" /\ steered < MaxSteers
    /\ turn' = [turn EXCEPT !.steering = @ + 1]
    /\ steered' = steered + 1
    /\ UNCHANGED <<state, pending, reply, log, history, conversation, usage,
                   created, compacts, rollbacks, consents>>

(* Mutant: requestsClear is forgotten. *)
AbortKeepingCards ==
    /\ state # "Ready"
    /\ EnterComplete(turn, "Aborted", pending \ reply)
    /\ UNCHANGED <<conversation, usage, user, consents>>

(* AgentModule::abort.  A pending reply answers its cancellation at once,  *)
(* so both branches go on to Complete; then the cards are cleared.         *)
Abort ==
    /\ state # "Ready"
    /\ EnterComplete(turn, "Aborted",
                     {p \in pending \ reply : p.kind \notin Cards})
    /\ UNCHANGED <<conversation, usage, user, consents>>

(* Mutant: the search for the user's message starts at the wrong end. *)
RollbackFirst ==
    /\ Primary /\ state = "Ready" /\ log # << >> /\ rollbacks < MaxRollbacks
    /\ log' = Tail(log)
    /\ history' = Tail(history)
    /\ rollbacks' = rollbacks + 1
    /\ UNCHANGED <<state, turn, pending, reply, conversation, usage,
                   created, compacts, steered, consents>>

(* AgentModule::conversationRollback: the last turn is deleted. *)
Rollback ==
    /\ Primary /\ state = "Ready" /\ log # << >> /\ rollbacks < MaxRollbacks
    /\ log' = SubSeq(log, 1, Len(log) - 1)
    /\ history' = SubSeq(history, 1, Len(history) - 1)
    /\ rollbacks' = rollbacks + 1
    /\ UNCHANGED <<state, turn, pending, reply, conversation, usage,
                   created, compacts, steered, consents>>

(***************************************************************************)
(* The provider's answers.                                                 *)
(***************************************************************************)

(* Mutant: after the last attempt nobody is told. *)
RetryOrSilence(r, rest) ==
    \/ /\ r.retries < RetryLimit
       /\ pending' = rest \cup {[r EXCEPT !.kind = TimerOf[r.kind], !.turn = turn.id]}
       /\ UNCHANGED <<state, turn, reply, log, history>>
    \/ /\ r.retries = RetryLimit
       /\ pending' = rest
       /\ UNCHANGED <<state, turn, reply, log, history>>

(* A transient failure: a timer is set, unless this was the last attempt.  *)
(* The timer remembers the turn that is current now.                       *)
RetryOrError(r, rest) ==
    \/ /\ r.retries < RetryLimit
       /\ pending' = rest \cup {[r EXCEPT !.kind = TimerOf[r.kind], !.turn = turn.id]}
       /\ UNCHANGED <<state, turn, reply, log, history>>
    \/ /\ r.retries = RetryLimit
       /\ EnterError(turn, rest)

(* Mutant: the usage figure is not reset, so nothing new is compacted. *)
SummarisedKeepingUsage(r) ==
    LET cut == turn.compacted
        t == [turn EXCEPT !.compacted = 0]
    IN /\ compacted' = cut
       /\ summary' = {log[i].turn : i \in {j \in 1 .. Len(log) : log[j].turn <= cut}}
       /\ UNCHANGED usage
       /\ \/ /\ turn.id = 0
             /\ state' = "Ready"
             /\ turn' = t
             /\ pending' = pending \ {r}
             /\ UNCHANGED <<reply, log, history>>
          \/ /\ turn.id # 0
             /\ EnterRequest(t, r.run, pending \ {r})

(* The history up to the cut is merged into the stored summary.  A manual  *)
(* compaction ends here and leaves its turn as it is.  With nothing to     *)
(* compact the request did not even carry the old summary.                 *)
Summarised(r) ==
    LET cut == turn.compacted
        t == [turn EXCEPT !.compacted = 0]
    IN /\ compacted' = cut
       /\ summary' = IF cut = 0 THEN {}
                     ELSE summary \cup {log[i].turn : i \in
                         {j \in Uncompacted : \E k \in j .. Len(log) : log[k].turn = cut}}
       /\ usage' = FALSE
       /\ \/ /\ turn.id = 0
             /\ state' = "Ready"
             /\ turn' = t
             /\ pending' = pending \ {r}
             /\ UNCHANGED <<reply, log, history>>
          \/ /\ turn.id # 0
             /\ EnterRequest(t, r.run, pending \ {r})

(* finished, of a compaction request. *)
FinishCompact(r) ==
    /\ r.kind = "compact"
    /\ \/ Summarised(r)
       \/ /\ \/ EnterError(turn, pending \ {r})
             \/ RetryOrError(r, pending \ {r})
          /\ UNCHANGED <<conversation, usage>>
    /\ UNCHANGED <<user, consents>>

(* readyRead: the first reasoning and the first content of an answer. *)
Receive(r, what) ==
    /\ r.kind = "stream" /\ what \in {"Think", "Response"} \ turn.seen
    /\ state' = what
    /\ turn' = [turn EXCEPT !.seen = @ \cup {what}]
    /\ UNCHANGED <<pending, reply, log, history, conversation, usage, user, consents>>

(* finished with the reason tool_calls: a tool message for every call. *)
FinishCalls(r, batch) ==
    LET old == Len(turn.messages)
        asked == [turn.messages EXCEPT ![r.index].filled = Len(batch)]
        t == [turn EXCEPT
                !.messages = asked \o [k \in 1 .. Len(batch) |-> Message("tool", 0)],
                !.calls = @ \o [k \in 1 .. Len(batch) |->
                                  [tool |-> batch[k], message |-> old + k]]]
    IN /\ Len(turn.calls) + Len(batch) <= MaxCalls
       /\ EnterToolCall(t, r.run, pending \ {r})

(* Mutant: a text that came during the last answer is not looked at. *)
FinishStopUnsteered(r) == EnterComplete(turn, "Completed", pending \ {r})

(* finished with the reason stop: the turn ends unless it was steered. *)
FinishStop(r) ==
    \/ /\ turn.steering = 0
       /\ EnterComplete(turn, "Completed", pending \ {r})
    \/ /\ turn.steering # 0
       /\ EnterRequest(turn, r.run, pending \ {r})

(* finished, of a streamed request.  A normal answer ends with its usage   *)
(* figures; a stream cut before its finish reason is a transient failure.  *)
FinishStream(r) ==
    /\ r.kind = "stream"
    /\ \/ /\ \/ \E batch \in Batches : FinishCalls(r, batch)
             \/ FinishStop(r)
          /\ usage' = TRUE
       \/ /\ \/ EnterError(turn, pending \ {r})
             \/ RetryOrError(r, pending \ {r})
          /\ UNCHANGED usage
    /\ UNCHANGED <<conversation, user, consents>>

(* Mutant: the timer does not remember its turn. *)
RetryTimerOfAnyTurn(p) ==
    /\ p.kind \in Timers
    /\ \/ /\ state # "Ready"
          /\ Post(IF p.kind = "streamTimer" THEN "stream" ELSE "compact",
                  turn, p.index, p.retries + 1, p.run, pending \ {p})
       \/ /\ state = "Ready"
          /\ pending' = pending \ {p}
          /\ UNCHANGED reply
    /\ UNCHANGED <<state, turn, log, history, conversation, usage, user, consents>>

(* The retry timer.  It does nothing when its turn is gone. *)
RetryTimer(p) ==
    /\ p.kind \in Timers
    /\ \/ /\ turn.id = p.turn /\ state # "Ready"
          /\ Post(IF p.kind = "streamTimer" THEN "stream" ELSE "compact",
                  turn, p.index, p.retries + 1, p.run, pending \ {p})
          /\ turn' = IF p.kind = "streamTimer" THEN [turn EXCEPT !.seen = {}] ELSE turn
          /\ usage' = (usage /\ p.kind # "streamTimer")
       \/ /\ turn.id # p.turn \/ state = "Ready"
          /\ pending' = pending \ {p}
          /\ UNCHANGED <<turn, reply, usage>>
    /\ UNCHANGED <<state, log, history, conversation, user, consents>>

(***************************************************************************)
(* The user's answers, and the tools'.                                     *)
(***************************************************************************)

(* permission, and the card that asked for it is removed.  The answer      *)
(* goes to whatever call is current, there being one.                      *)
Permission(p, status) ==
    /\ p.kind = "permission" /\ turn.index <= Len(turn.calls)
    /\ \/ /\ status
          /\ state' = "ToolExec"
          /\ pending' = (pending \ {p}) \cup
                            {[p EXCEPT !.kind = "tool", !.turn = turn.id,
                                       !.index = turn.index]}
          /\ consents' = consents \cup {[turn |-> p.turn, index |-> p.index]}
          /\ UNCHANGED <<turn, reply, log, history>>
       \/ /\ ~status
          /\ ToolResultSet(turn, TRUE, p.run, pending \ {p})
          /\ UNCHANGED consents
    /\ UNCHANGED <<conversation, usage, user>>

(* userInput: an empty answer disables questions for the turn. *)
UserInput(p, answered) ==
    /\ p.kind = "input" /\ turn.index <= Len(turn.calls)
    /\ ToolResultSet([turn EXCEPT !.questions = @ /\ answered], TRUE, p.run, pending \ {p})
    /\ UNCHANGED <<conversation, usage, user, consents>>

(* The future of a tool.  A result nobody waits for any more is dropped;   *)
(* plan updates are not counted.                                           *)
ToolDone(p, success) ==
    /\ p.kind = "tool"
    /\ \/ /\ state = "ToolExec" /\ turn.id = p.turn /\ turn.index = p.index
          /\ ToolResultSet([turn EXCEPT !.callCount =
                              IF turn.calls[turn.index].tool = Plan THEN @ ELSE @ + 1],
                           success, p.run, pending \ {p})
       \/ /\ state # "ToolExec" \/ turn.id # p.turn \/ turn.index # p.index
          /\ pending' = pending \ {p}
          /\ UNCHANGED <<state, turn, reply, log, history>>
    /\ UNCHANGED <<conversation, usage, user, consents>>

Provider == \E p \in pending : FinishCompact(p) \/ FinishStream(p)
Timer == \E p \in pending : RetryTimer(p)
Tool == \E p \in pending, success \in BOOLEAN : ToolDone(p, success)

Next == \/ PreWithoutModel \/ Pre \/ Dispatch \/ ManualCompact
        \/ Steer \/ Abort \/ Rollback
        \/ Provider \/ Timer \/ Tool
        \/ \E p \in pending, what \in {"Think", "Response"} : Receive(p, what)
        \/ \E p \in pending, status \in BOOLEAN : Permission(p, status)
        \/ \E p \in pending, answered \in BOOLEAN : UserInput(p, answered)

Spec == Init /\ [][Next]_vars

(* Replies end, timers expire and tools return; the user may stay away. *)
FairSpec == /\ Spec
            /\ WF_vars(Provider) /\ WF_vars(Timer) /\ WF_vars(Tool)

(***************************************************************************)
(* Properties.                                                             *)
(***************************************************************************)

Turns == [id : Nat, compacted : Nat,
          messages : Seq([role : {"user", "assistant", "tool"}, filled : Nat]),
          steering : Nat, seen : SUBSET {"Think", "Response"},
          questions : BOOLEAN, callCount : Nat,
          calls : Seq([tool : Tools, message : Nat]), index : Nat \ {0},
          failedTool : SUBSET Tools, failures : Nat]

(* The types of the state, and no turn goes on with one of the limits that *)
(* toolResultSet checks reached.                                           *)
TypeOK == /\ state \in {"Ready", "Compact", "Permission", "UserInput", "ToolExec"}
                        \cup Streaming
          /\ turn \in Turns
          /\ pending \subseteq Pending
          /\ reply \subseteq Pending
          /\ log \in Seq([turn : Nat, status : Status])
          /\ history \in Seq(Seq([role : {"user", "assistant", "tool"}, filled : Nat]))
          /\ compacted \in Nat
          /\ usage \in BOOLEAN
          /\ created \in Nat /\ compacts \in Nat /\ rollbacks \in Nat /\ steered \in Nat
          /\ summary \subseteq Nat
          /\ consents \subseteq [turn : Nat, index : Nat]
          /\ turn.callCount < CallLimit
          /\ turn.failures < FailureLimit

(* What can still move the machine on: an answer that its handler will not *)
(* drop.                                                                   *)
Effective(p) ==
    \/ p.kind \in Replies
    \/ p.kind \in Timers /\ p.turn = turn.id /\ state # "Ready"
    \/ p.kind = "tool" /\ state = "ToolExec" /\ p.turn = turn.id /\ p.index = turn.index
    \/ p.kind \in Cards

(* The kinds of answer each state waits for. *)
Awaited == CASE state = "Ready" -> {}
             [] state = "Compact" -> {"compact", "compactTimer"}
             [] state \in Streaming -> {"stream", "streamTimer"}
             [] state = "Permission" -> {"permission"}
             [] state = "UserInput" -> {"input"}
             [] state = "ToolExec" -> {"tool"}

(* A runtime that is busy waits for exactly one answer, of the kind its    *)
(* state names and of the turn in progress, and an idle one for none: no   *)
(* handler leaves a turn without a driver (it would hang), starts a second *)
(* one beside it, or leaves a card or a reply behind (stateSet, retry,     *)
(* abort's requestsClear, m_reply).                                        *)
OneDriver ==
    LET live == {p \in pending : Effective(p)}
    IN /\ state = "Ready" => live = {}
       /\ state # "Ready" => \E p \in live : /\ live = {p}
                                             /\ p.kind \in Awaited
                                             /\ p.turn = turn.id
                                             /\ p.kind \in Replies => reply = {p}

(* No request is under way for a run that has ended: once a run is over,   *)
(* by itself or stopped by the user, nothing is asked on its behalf.       *)
StoppedMeansStopped ==
    \A p \in pending : p.kind \in Replies => state # "Ready" /\ p.run = Run

(* Each call an assistant message made has a tool message in its place     *)
(* right behind it, and no tool message stands anywhere else.              *)
Paired(messages) ==
    LET Of(role) == {m \in 1 .. Len(messages) : messages[m].role = role}
    IN Of("tool") = UNION {m + 1 .. m + messages[m].filled : m \in Of("assistant")}

(* And each has its result. *)
WellFormed(messages) ==
    /\ Paired(messages)
    /\ \A m \in 1 .. Len(messages) : messages[m].role = "tool" => messages[m].filled = 1

(* What is posted to the provider is a conversation its API accepts: the   *)
(* turns read back from the database, then the turn in progress.  In each  *)
(* of them, and so in the whole, every tool call is answered right behind  *)
(* the message that made it, and no answer stands without its call.  The   *)
(* answers are results in the turn in progress and in those that           *)
(* completed; those of a turn that was stopped or failed may be empty      *)
(* (contextBuild, conversationAppend, toolResultSet).                      *)
ContextWellFormed ==
    \A p \in pending : p.kind = "stream" /\ p.turn = turn.id =>
        /\ WellFormed(SubSeq(turn.messages, 1, p.index - 1))
        /\ \A i \in Uncompacted \cap DOMAIN history :
              /\ Paired(history[i])
              /\ log[i].status = "Completed" => WellFormed(history[i])

(* A tool is executed only when the mode permits it or the user approved   *)
(* that very call, although permission() takes no call and applies the     *)
(* answer to whatever call is current (permission, case ToolExec).         *)
ApprovalHonoured ==
    \A p \in pending : p.kind = "tool" /\ p.turn = turn.id =>
        \/ turn.calls[p.index].tool \in Approved
        \/ [turn |-> p.turn, index |-> p.index] \in consents

(* The texts of the user messages. *)
TextsOf(messages) ==
    LET Sum[n \in 0 .. Len(messages)] ==
            IF n = 0 THEN 0
            ELSE Sum[n - 1] + (IF messages[n].role = "user" THEN messages[n].filled ELSE 0)
    IN Sum[Len(messages)]

(* A turn that completes has put every text the user steered it with into  *)
(* its conversation, and the model has answered after the last of them: a  *)
(* text that comes while the answer streams in is not lost (steer, case    *)
(* Request, the branch on stop).                                           *)
SteeringAnswered ==
    [][Len(log') > Len(log) /\ log'[Len(log')].status = "Completed" =>
          /\ TextsOf(turn.messages) = 1 + steered
          /\ turn.messages[Len(turn.messages)].role = "assistant"]_vars

(* What a request leaves out of the conversation stands in the summary it  *)
(* carries instead: contextBuild skips only turns that were compacted.     *)
HistoryReachesModel ==
    \A i \in 1 .. Len(log) : i \in Uncompacted \/ log[i].turn \in summary

(* As long as no turn is taken back that holds, whatever is compacted, by  *)
(* hand or not, stopped or retried (compactBuild, conversationCompact).    *)
HistoryKept == rollbacks = 0 => HistoryReachesModel

(* Compaction only goes forward: the compacted turn is never replaced by   *)
(* an earlier one, or by none (compactBuild, conversationCompact).         *)
CompactionAdvances ==
    [][compacted' # compacted => compacted' > compacted]_vars

(* Turns run one after the other and each is recorded exactly once. *)
Turn == INSTANCE AgentTurn WITH active <- turn.id
RecordsTurns == Turn!Spec

(* A busy runtime comes to an end or to a question to the user, whatever   *)
(* the network and the tools answer: no retry, limit, stale answer or      *)
(* steering text leaves it hanging.                                        *)
ComesToRest == state # "Ready" ~> state \in {"Ready", "Permission", "UserInput"}
=============================================================================
