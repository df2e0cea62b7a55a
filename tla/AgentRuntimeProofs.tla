------------------------- MODULE AgentRuntimeProofs -------------------------
(***************************************************************************)
(* For every set of tools, every mode, limit and bound: the runtime keeps  *)
(* its types, never goes on with a limit reached, and records each turn    *)
(* exactly once (it implements AgentTurn).  Those proofs do not bound the  *)
(* manual compactions, so they hold with stale retries too.  Up to the     *)
(* second manual compaction a busy machine waits for exactly one answer,   *)
(* executes no tool that is neither permitted nor approved, and posts      *)
(* well-formed conversations only, and a turn completes with all it was    *)
(* steered with answered.  Until a turn is taken back, what is left out of *)
(* a conversation stands in its summary, and compaction goes forward.      *)
(***************************************************************************)
EXTENDS AgentRuntime, SequenceTheorems, WellFoundedInduction, TLAPS

States == {"Ready", "Compact", "Permission", "UserInput", "ToolExec"} \cup Streaming

Messages == [role : {"user", "assistant", "tool"}, filled : Nat]
Calls == [tool : Tools, message : Nat]
Entries == [turn : Nat, status : Status]
Histories == Seq(Seq(Messages))

(* A turn the machine may go on with. *)
GoodTurn(t) == t \in Turns /\ t.callCount < CallLimit /\ t.failures < FailureLimit

(* A timer is set only when there is an attempt left. *)
GoodPending == {p \in Pending : p.kind \in Timers => p.retries < RetryLimit}

(* What a chain of stateSet calls entered with the turn t ends in: either  *)
(* the turn goes on and the record is as before, or it is on the record    *)
(* with its outcome and the machine is Ready.                              *)
Goes(t) ==
    /\ state' \in States
    /\ GoodTurn(turn')
    /\ pending' \subseteq GoodPending
    /\ reply' \subseteq Pending
    /\ state' = "ToolExec" => turn'.index <= Len(turn'.calls)
    /\ history \in Histories => history' \in Histories
    /\ \/ /\ state' # "Ready"
          /\ turn'.id = t.id
          /\ log' = log
       \/ /\ state' = "Ready"
          /\ turn'.id = 0
          /\ \E status \in Status :
                log' = IF t.id = 0 THEN log
                       ELSE Append(log, [turn |-> t.id, status |-> status])

(* The inductive invariant.  Beyond the types it says that an idle machine *)
(* has no turn, that the turn in progress is the newest one, and that a    *)
(* tool is executed for a call that exists.                                *)
IInv ==
    /\ TypeOK
    /\ pending \subseteq GoodPending
    /\ state = "Ready" => turn.id = 0
    /\ turn.id \in {0, created}
    /\ state = "ToolExec" => turn.index <= Len(turn.calls)

LEMMA TurnsAre ==
    Turns = [id : Nat, compacted : Nat, messages : Seq(Messages),
             steering : Nat, seen : SUBSET {"Think", "Response"},
             questions : BOOLEAN, callCount : Nat,
             calls : Seq(Calls), index : Nat \ {0},
             failedTool : SUBSET Tools, failures : Nat]
BY DEF Turns, Messages, Calls

LEMMA NoTurnGood == GoodTurn(NoTurn) /\ NoTurn.id = 0
<1>1. << >> \in Seq(Messages) /\ << >> \in Seq(Calls)
    OBVIOUS
<1>2. NoTurn \in Turns
    BY <1>1, TurnsAre DEF NoTurn
<1> QED
    BY <1>2, AgentAssumption DEF NoTurn, GoodTurn

LEMMA MessageType ==
    ASSUME NEW role \in {"user", "assistant", "tool"}, NEW filled \in Nat
    PROVE  Message(role, filled) \in Messages
BY DEF Message, Messages

LEMMA NewTurnGood ==
    ASSUME created \in Nat
    PROVE  GoodTurn(NewTurn) /\ NewTurn.id = created + 1
<1>1. <<Message("user", 1)>> \in Seq(Messages)
    BY MessageType
<1> DEFINE m == <<Message("user", 1)>>
           i == created + 1
<1>2. i \in Nat
    OBVIOUS
<1>3. NewTurn = [NoTurn EXCEPT !.id = i, !.messages = m]
    BY DEF NewTurn
<1> HIDE DEF m, i
<1>4. NewTurn \in Turns
    BY <1>1, <1>2, <1>3, NoTurnGood, TurnsAre DEF GoodTurn, m
<1>5. /\ NewTurn.id = i
      /\ NewTurn.callCount = 0
      /\ NewTurn.failures = 0
    BY <1>3 DEF NoTurn
<1> QED
    BY <1>4, <1>5, AgentAssumption DEF GoodTurn, i

-----------------------------------------------------------------------------

LEMMA CompleteGoes ==
    ASSUME NEW t \in Turns, NEW status \in Status, NEW rest \in SUBSET GoodPending,
           reply \subseteq Pending, EnterComplete(t, status, rest)
    PROVE  Goes(t)
<1>1. state' = "Ready" /\ turn' = NoTurn /\ pending' = rest /\ reply' = reply
    BY DEF EnterComplete
<1>2. "Ready" \in States
    BY DEF States
<1>3. log' = IF t.id = 0 THEN log
             ELSE Append(log, [turn |-> t.id, status |-> status])
    BY DEF EnterComplete
<1>4. history \in Histories => history' \in Histories
    <2>1. t.messages \in Seq(Messages)
        BY TurnsAre
    <2> DEFINE M == Seq(Messages)
    <2> HIDE DEF M
    <2>2. ASSUME history \in Seq(M), t.messages \in M
          PROVE  history' \in Seq(M)
        BY <2>2 DEF EnterComplete
    <2> QED
        BY <2>1, <2>2 DEF Histories, M
<1> QED
    BY <1>1, <1>2, <1>3, <1>4, NoTurnGood DEF Goes

LEMMA ErrorGoes ==
    ASSUME NEW t \in Turns, NEW rest \in SUBSET GoodPending,
           reply \subseteq Pending, EnterError(t, rest)
    PROVE  Goes(t)
<1>1. "Error" \in Status
    BY DEF Status
<1> QED
    BY <1>1, CompleteGoes DEF EnterError

LEMMA PostGood ==
    ASSUME NEW kind \in Replies, NEW t, t.id \in Nat, NEW index \in Nat,
           NEW retries \in 0 .. RetryLimit, NEW run \in Nat,
           NEW rest \in SUBSET GoodPending, Post(kind, t, index, retries, run, rest)
    PROVE  pending' \subseteq GoodPending /\ reply' \subseteq Pending
<1> DEFINE r == [kind |-> kind, turn |-> t.id, index |-> index,
                 retries |-> retries, run |-> run]
<1>1. r \in GoodPending /\ r \in Pending
    BY DEF GoodPending, Pending, Replies, Timers
<1>2. pending' = rest \cup {r} /\ reply' = {r}
    BY DEF Post
<1> HIDE DEF r
<1> QED
    BY <1>1, <1>2

LEMMA RequestGoes ==
    ASSUME NEW t, GoodTurn(t), NEW run \in Nat, NEW rest \in SUBSET GoodPending,
           EnterRequest(t, run, rest)
    PROVE  Goes(t)
<1> DEFINE heard == IF t.steering = 0 THEN t.messages
                    ELSE Append(t.messages, Message("user", t.steering))
           asked == Append(heard, Message("assistant", 0))
<1>1. t \in Turns /\ t.messages \in Seq(Messages) /\ t.steering \in Nat /\ t.id \in Nat
    BY TurnsAre DEF GoodTurn
<1>2. heard \in Seq(Messages)
    BY <1>1, MessageType
<1>3. asked \in Seq(Messages)
    BY <1>2, MessageType
<1>4. /\ state' = "Request"
      /\ turn' = [t EXCEPT !.messages = asked, !.steering = 0, !.seen = {}]
      /\ Post("stream", t, Len(heard) + 1, 0, run, rest)
      /\ log' = log /\ history' = history
    BY DEF EnterRequest
<1>5. Len(heard) + 1 \in Nat
    BY <1>2
<1>6. pending' \subseteq GoodPending /\ reply' \subseteq Pending
    <2>1. "stream" \in Replies /\ 0 \in 0 .. RetryLimit
        BY DEF Replies, RetryLimit
    <2> HIDE DEF heard
    <2> QED
        BY <2>1, <1>1, <1>4, <1>5, PostGood
<1> HIDE DEF asked
<1>7. turn' \in Turns
    BY <1>1, <1>3, <1>4, TurnsAre
<1>8. /\ turn'.callCount = t.callCount
      /\ turn'.failures = t.failures
      /\ turn'.id = t.id
    BY <1>1, <1>4, TurnsAre
<1> QED
    BY <1>4, <1>6, <1>7, <1>8 DEF Goes, GoodTurn, States, Streaming

LEMMA UncompactedInLog ==
    ASSUME log \in Seq(Entries), NEW i \in Uncompacted
    PROVE  log[i].turn \in Nat
<1>1. i \in 1 .. Len(log)
    BY DEF Uncompacted
<1>2. log[i] \in Entries
    BY <1>1
<1> QED
    BY <1>2 DEF Entries

LEMMA CompactGoes ==
    ASSUME NEW t, GoodTurn(t), NEW run \in Nat, NEW rest \in SUBSET GoodPending,
           log \in Seq(Entries), EnterCompact(t, run, rest)
    PROVE  Goes(t)
<1>1. PICK cut \in IF Uncompacted = {} THEN {0} ELSE {log[i].turn : i \in Uncompacted} :
          /\ state' = "Compact"
          /\ turn' = [t EXCEPT !.compacted = cut]
          /\ Post("compact", t, 0, 0, run, rest)
          /\ log' = log /\ history' = history
    BY DEF EnterCompact
<1>2. cut \in Nat
    BY <1>1, UncompactedInLog
<1>3. t \in Turns /\ t.id \in Nat
    BY TurnsAre DEF GoodTurn
<1>4. pending' \subseteq GoodPending /\ reply' \subseteq Pending
    <2>1. "compact" \in Replies /\ 0 \in 0 .. RetryLimit
        BY DEF Replies, RetryLimit
    <2> QED
        BY <2>1, <1>1, <1>3, PostGood
<1>5. turn' \in Turns
    BY <1>1, <1>2, <1>3, TurnsAre
<1>6. /\ turn'.callCount = t.callCount
      /\ turn'.failures = t.failures
      /\ turn'.id = t.id
    BY <1>1, <1>3, TurnsAre
<1> QED
    BY <1>1, <1>4, <1>5, <1>6 DEF Goes, GoodTurn, States, Streaming

LEMMA FilledType ==
    ASSUME NEW t \in Turns, NEW from, NEW to
    PROVE  Filled(t, from, to) \in Seq(Messages)
<1>1. t.messages \in Seq(Messages)
    BY TurnsAre
<1>2. Len(t.messages) \in Nat
    BY <1>1
<1>3. \A m \in 1 .. Len(t.messages) : t.messages[m] \in Messages
    BY <1>1
<1>4. \A m \in 1 .. Len(t.messages) :
          [t.messages[m] EXCEPT !.filled = 1] \in Messages
    BY <1>3 DEF Messages
<1>5. Filled(t, from, to) \in [1 .. Len(t.messages) -> Messages]
    BY <1>3, <1>4 DEF Filled
<1> QED
    BY <1>2, <1>5, IsASeq

(* Answering a turn's calls up to one that exists, or none at all. *)
LEMMA AnsweredGood ==
    ASSUME NEW t \in Turns, t.failures < FailureLimit, NEW to \in Nat
    PROVE  /\ Answered(t, t.index, to) \in Turns
           /\ Answered(t, t.index, to).failures < FailureLimit
           /\ Answered(t, t.index, to).id = t.id
           /\ Answered(t, t.index, to).callCount = t.callCount
           /\ Answered(t, t.index, to).calls = t.calls
           /\ Answered(t, t.index, to).steering = t.steering
           /\ Answered(t, t.index, to).messages = IF to < t.index THEN t.messages
                                                  ELSE Filled(t, t.index, to)
           /\ Answered(t, t.index, to).index = IF to < t.index THEN t.index ELSE to + 1
<1> DEFINE m == Filled(t, t.index, to)
           next == to + 1
           u == [t EXCEPT !.messages = m, !.index = next,
                          !.failedTool = {}, !.failures = 0]
<1>1. CASE to < t.index
    BY <1>1 DEF Answered
<1>2. CASE ~(to < t.index)
    <2>1. Answered(t, t.index, to) = u
        BY <1>2 DEF Answered
    <2>2. m \in Seq(Messages) /\ next \in Nat \ {0}
        BY FilledType
    <2>3. 0 < FailureLimit
        BY AgentAssumption
    <2>4. next = to + 1
        OBVIOUS
    <2> HIDE DEF m, next
    <2>5. u \in Turns
        BY <2>2, TurnsAre
    <2>6. u.failures = 0 /\ u.id = t.id /\ u.callCount = t.callCount
          /\ u.calls = t.calls /\ u.index = next
          /\ u.steering = t.steering /\ u.messages = m
        BY TurnsAre
    <2>7. m = Filled(t, t.index, to)
        BY DEF m
    <2> HIDE DEF u
    <2> QED
        BY <1>2, <2>1, <2>3, <2>4, <2>5, <2>6, <2>7
<1> QED
    BY <1>1, <1>2

LEMMA ToolCallGoes ==
    ASSUME NEW t, GoodTurn(t), NEW run \in Nat, NEW rest \in SUBSET GoodPending,
           reply \subseteq Pending, EnterToolCall(t, run, rest)
    PROVE  Goes(t)
<1> DEFINE U(n) == Answered(t, t.index, n - 1)
           W(n, kind) == [kind |-> kind, turn |-> t.id, index |-> n,
                          retries |-> 0, run |-> run]
           Wait(n, where, kind) ==
               /\ state' = where
               /\ turn' = U(n)
               /\ pending' = rest \cup {W(n, kind)}
               /\ UNCHANGED <<reply, log, history>>
<1>1. PICK n \in t.index .. Len(t.calls) + 1 :
          \/ EnterRequest(U(n), run, rest)
          \/ /\ n <= Len(t.calls)
             /\ \/ Wait(n, "UserInput", "input")
                \/ Wait(n, "ToolExec", "tool")
                \/ Wait(n, "Permission", "permission")
    BY DEF EnterToolCall
<1>2. /\ t \in Turns /\ t.id \in Nat /\ t.index \in Nat \ {0}
      /\ t.callCount < CallLimit /\ t.failures < FailureLimit
      /\ Len(t.calls) \in Nat
    BY TurnsAre DEF GoodTurn
<1>3. n \in Nat \ {0} /\ n - 1 \in Nat /\ t.index <= n
    BY <1>2
<1>4. /\ GoodTurn(U(n))
      /\ U(n).id = t.id
      /\ U(n).calls = t.calls
      /\ U(n).index = n
    <2>1. U(n).index = IF n - 1 < t.index THEN t.index ELSE (n - 1) + 1
        BY <1>2, <1>3, AnsweredGood
    <2>2. U(n).index = n
        BY <2>1, <1>2, <1>3
    <2>3. /\ U(n) \in Turns
          /\ U(n).failures < FailureLimit
          /\ U(n).id = t.id
          /\ U(n).callCount = t.callCount
          /\ U(n).calls = t.calls
        BY <1>2, <1>3, AnsweredGood
    <2> HIDE DEF U
    <2> QED
        BY <1>2, <2>2, <2>3 DEF GoodTurn
<1>5. CASE EnterRequest(U(n), run, rest)
    <2>1. Goes(U(n))
        <3> HIDE DEF U
        <3> QED
            BY <1>4, <1>5, RequestGoes
    <2> HIDE DEF U
    <2> QED
        BY <1>4, <2>1 DEF Goes
<1>6. ASSUME NEW where \in {"UserInput", "ToolExec", "Permission"},
             NEW kind \in {"input", "tool", "permission"},
             n <= Len(t.calls), Wait(n, where, kind)
      PROVE  Goes(t)
    <2>1. W(n, kind) \in GoodPending
        BY <1>2, <1>3 DEF GoodPending, Pending, Timers, RetryLimit
    <2>2. /\ state' = where /\ turn' = U(n) /\ pending' = rest \cup {W(n, kind)}
          /\ reply' = reply /\ log' = log /\ history' = history
        BY <1>6
    <2>3. where \in States /\ where # "Ready"
        BY DEF States
    <2> HIDE DEF U, W
    <2>4. turn'.index <= Len(turn'.calls)
        BY <1>4, <1>6, <2>2
    <2> QED
        BY <1>4, <2>1, <2>2, <2>3, <2>4 DEF Goes
<1> HIDE DEF Wait
<1> QED
    BY <1>1, <1>5, <1>6

LEMMA ToolResultGoes ==
    ASSUME NEW t \in Turns, t.failures < FailureLimit, t.index <= Len(t.calls),
           NEW success \in BOOLEAN, NEW run \in Nat, NEW rest \in SUBSET GoodPending,
           reply \subseteq Pending, ToolResultSet(t, success, run, rest)
    PROVE  Goes(t)
<1> DEFINE tool == t.calls[t.index].tool
           a == Answered(t, t.index, t.index)
           failed == IF success THEN {} ELSE {tool}
           count == IF success THEN 0
                    ELSE IF t.failedTool = {tool} THEN t.failures + 1 ELSE 1
           done == [a EXCEPT !.failedTool = failed, !.failures = count]
<1>1. IF done.failures >= FailureLimit \/ done.callCount >= CallLimit
      THEN EnterError(done, rest)
      ELSE EnterToolCall(done, run, rest)
    BY DEF ToolResultSet
<1>2. t.index \in Nat \ {0} /\ t.failures \in Nat /\ t.calls \in Seq(Calls)
    BY TurnsAre
<1>3. tool \in Tools
    <2>1. t.calls[t.index] \in Calls
        BY <1>2
    <2> QED
        BY <2>1 DEF Calls
<1>4. failed \in SUBSET Tools /\ count \in Nat
    BY <1>2, <1>3
<1>5. a \in Turns /\ a.id = t.id
    BY <1>2, AnsweredGood
<1> HIDE DEF tool, a, failed, count
<1>6. done \in Turns /\ done.id = t.id
    BY <1>4, <1>5, TurnsAre
<1> HIDE DEF done
<1>7. Goes(done)
    <2>1. CASE done.failures >= FailureLimit \/ done.callCount >= CallLimit
        BY <1>1, <1>6, <2>1, ErrorGoes
    <2>2. CASE ~(done.failures >= FailureLimit \/ done.callCount >= CallLimit)
        <3>1. done.failures \in Nat /\ done.callCount \in Nat
            BY <1>6, TurnsAre
        <3>2. GoodTurn(done)
            BY <1>6, <2>2, <3>1, AgentAssumption DEF GoodTurn
        <3> QED
            BY <1>1, <2>2, <3>2, ToolCallGoes
    <2> QED
        BY <2>1, <2>2
<1> QED
    BY <1>6, <1>7 DEF Goes

-----------------------------------------------------------------------------

(* The variables a chain of stateSet calls leaves alone. *)
Outside == /\ compacted \in Nat
           /\ usage \in BOOLEAN
           /\ created \in Nat /\ compacts \in Nat /\ rollbacks \in Nat /\ steered \in Nat
           /\ summary \subseteq Nat
           /\ consents \subseteq [turn : Nat, index : Nat]

Refines == [Turn!Next]_<<turn.id, created, log>>

Good == IInv' /\ Refines

LEMMA IInvParts ==
    IInv <=> /\ state \in States
             /\ GoodTurn(turn)
             /\ pending \subseteq GoodPending
             /\ reply \subseteq Pending
             /\ log \in Seq(Entries)
             /\ history \in Histories
             /\ Outside
             /\ state = "Ready" => turn.id = 0
             /\ turn.id \in {0, created}
             /\ state = "ToolExec" => turn.index <= Len(turn.calls)
BY DEF IInv, TypeOK, States, GoodTurn, Entries, Histories, Messages, Outside, GoodPending

LEMMA IInvPrimed ==
    IInv' <=> /\ state' \in States
              /\ GoodTurn(turn')
              /\ pending' \subseteq GoodPending
              /\ reply' \subseteq Pending
              /\ log' \in Seq(Entries)
              /\ history' \in Histories
              /\ Outside'
              /\ state' = "Ready" => turn'.id = 0
              /\ turn'.id \in {0, created'}
              /\ state' = "ToolExec" => turn'.index <= Len(turn'.calls)
BY DEF IInv, TypeOK, States, GoodTurn, Entries, Histories, Messages, Outside, GoodPending

LEMMA RecordType ==
    ASSUME log \in Seq(Entries), NEW t, t.id \in Nat, NEW status \in Status
    PROVE  Append(log, [turn |-> t.id, status |-> status]) \in Seq(Entries)
<1>1. [turn |-> t.id, status |-> status] \in Entries
    BY DEF Entries
<1> QED
    BY <1>1

LEMMA GoesTypes ==
    ASSUME IInv, NEW t, t.id \in Nat, Goes(t), Outside', t.id \in {0, created'}
    PROVE  IInv'
<1>1. log \in Seq(Entries)
    BY IInvParts
<1>2. log' \in Seq(Entries)
    BY <1>1, RecordType DEF Goes
<1>3. state' = "Ready" => turn'.id = 0
    BY DEF Goes
<1>4. turn'.id \in {0, created'}
    BY DEF Goes
<1>5. history' \in Histories
    BY IInvParts DEF Goes
<1> QED
    BY <1>2, <1>3, <1>4, <1>5, IInvPrimed DEF Goes

(* A chain entered with the turn in progress goes on or ends that turn. *)
LEMMA GoesGood ==
    ASSUME IInv, NEW t, t.id = turn.id, Goes(t), Outside', created' = created
    PROVE  Good
<1>1. turn.id \in Nat /\ turn.id \in {0, created}
    <2>1. turn \in Turns
        BY IInvParts DEF GoodTurn
    <2> QED
        BY <2>1, IInvParts, TurnsAre
<1>2. IInv'
    BY <1>1, GoesTypes
<1>3. turn'.id = turn.id /\ log' = log => Refines
    BY DEF Refines
<1>4. turn'.id = 0 /\ t.id = 0 /\ log' = log => Refines
    BY DEF Refines
<1>5. ASSUME turn'.id = 0, t.id # 0, NEW status \in Status,
             log' = Append(log, [turn |-> t.id, status |-> status])
      PROVE  Refines
    <2>1. Turn!End(status)
        BY <1>5 DEF Turn!End
    <2> QED
        BY <2>1 DEF Refines, Turn!Next
<1>6. Refines
    BY <1>3, <1>4, <1>5 DEF Goes
<1> QED
    BY <1>2, <1>6 DEF Good

(* A chain entered with a new turn begins it: it does not end at once. *)
LEMMA BeginGood ==
    ASSUME IInv, turn.id = 0, Goes(NewTurn), state' # "Ready", Outside',
           created' = created + 1
    PROVE  Good
<1>1. created \in Nat
    BY IInvParts DEF Outside
<1>2. NewTurn.id = created'
    BY <1>1, NewTurnGood
<1>3. IInv'
    BY <1>1, <1>2, GoesTypes
<1>4. Turn!Begin
    BY <1>2 DEF Goes, Turn!Begin
<1> QED
    BY <1>3, <1>4 DEF Good, Refines, Turn!Next

(* A step that leaves the turn's id, the record and the count alone. *)
LEMMA StutterGood ==
    ASSUME IInv', turn'.id = turn.id, log' = log, created' = created
    PROVE  Good
BY DEF Good, Refines

LEMMA RunType ==
    ASSUME IInv
    PROVE  Run \in Nat /\ Run + 1 \in Nat
<1>1. created \in Nat /\ compacts \in Nat
    BY IInvParts DEF Outside
<1> QED
    BY <1>1 DEF Run

LEMMA Initially == Init => IInv /\ Turn!Init
<1> SUFFICES ASSUME Init PROVE IInv /\ Turn!Init
    OBVIOUS
<1>1. GoodTurn(turn) /\ turn.id = 0
    BY NoTurnGood DEF Init
<1>2. "Ready" \in States
    BY DEF States
<1>3. log \in Seq(Entries) /\ history \in Histories
    BY DEF Init, Histories
<1>4. Outside
    BY DEF Init, Outside
<1>5. IInv
    BY <1>1, <1>2, <1>3, <1>4, IInvParts DEF Init
<1>6. Turn!Init
    BY <1>1 DEF Init, Turn!Init
<1> QED
    BY <1>5, <1>6

-----------------------------------------------------------------------------

(* One lemma per action: it keeps the invariant and refines AgentTurn. *)

LEMMA PreWithoutModelGood == ASSUME IInv, PreWithoutModel PROVE Good
<1>1. /\ state = "Ready" /\ turn.id = 0 /\ turn' = NoTurn
      /\ state' = state /\ pending' = pending /\ reply' = reply /\ log' = log
      /\ history' = history /\ created' = created
    BY IInvParts DEF PreWithoutModel, user
<1>2. Outside'
    BY IInvParts DEF PreWithoutModel, Outside, conversation, user
<1>3. IInv'
    BY <1>1, <1>2, IInvParts, IInvPrimed, NoTurnGood
<1> QED
    BY <1>1, <1>3, NoTurnGood, StutterGood

LEMMA PreGood == ASSUME IInv, Pre PROVE Good
<1>1. turn.id = 0 /\ created \in Nat /\ reply \subseteq Pending /\ log \in Seq(Entries)
      /\ pending \in SUBSET GoodPending /\ created' = created + 1
    BY IInvParts DEF Pre, Outside
<1>2. Outside'
    BY IInvParts DEF Pre, Outside, conversation
<1>3. GoodTurn(NewTurn)
    BY <1>1, NewTurnGood
<1>4. Goes(NewTurn) /\ state' # "Ready"
    <2>1. CASE EnterRequest(NewTurn, Run + 1, pending)
        BY <1>1, <1>3, <2>1, RequestGoes, RunType DEF EnterRequest
    <2>2. CASE EnterCompact(NewTurn, Run + 1, pending)
        BY <1>1, <1>3, <2>2, CompactGoes, RunType DEF EnterCompact
    <2> QED
        BY <2>1, <2>2 DEF Pre
<1> QED
    BY <1>1, <1>2, <1>4, BeginGood

LEMMA DispatchGood == ASSUME IInv, Dispatch PROVE Good
<1>1. turn.id = 0 /\ created \in Nat /\ pending \in SUBSET GoodPending
      /\ created' = created + 1
    BY IInvParts DEF Dispatch, Outside
<1>2. Outside'
    BY IInvParts DEF Dispatch, Outside, conversation
<1>3. GoodTurn(NewTurn)
    BY <1>1, NewTurnGood
<1>4. Goes(NewTurn) /\ state' # "Ready"
    BY <1>1, <1>3, RequestGoes, RunType DEF Dispatch, EnterRequest
<1> QED
    BY <1>1, <1>2, <1>4, BeginGood

LEMMA ManualCompactGood == ASSUME IInv, ManualCompact PROVE Good
<1>1. /\ GoodTurn(turn) /\ log \in Seq(Entries) /\ pending \in SUBSET GoodPending
      /\ created' = created
    BY IInvParts DEF ManualCompact
<1>2. Outside'
    BY IInvParts DEF ManualCompact, Outside, conversation
<1>3. Goes(turn)
    BY <1>1, CompactGoes, RunType DEF ManualCompact
<1> QED
    BY <1>1, <1>2, <1>3, GoesGood

LEMMA SteerGood == ASSUME IInv, Steer PROVE Good
<1> DEFINE n == turn.steering + 1
<1>1. /\ turn \in Turns /\ turn.callCount < CallLimit /\ turn.failures < FailureLimit
      /\ turn' = [turn EXCEPT !.steering = n]
      /\ state' = state /\ pending' = pending /\ reply' = reply /\ log' = log
      /\ history' = history /\ created' = created
    BY IInvParts DEF Steer, GoodTurn
<1>2. Outside'
    BY IInvParts DEF Steer, Outside, conversation
<1>6. n \in Nat
    BY <1>1, TurnsAre
<1> HIDE DEF n
<1>3. /\ turn' \in Turns /\ turn'.callCount = turn.callCount
      /\ turn'.failures = turn.failures /\ turn'.id = turn.id
      /\ turn'.index = turn.index /\ turn'.calls = turn.calls
    BY <1>1, <1>6, TurnsAre
<1>4. GoodTurn(turn')
    BY <1>1, <1>3 DEF GoodTurn
<1>5. IInv'
    BY <1>1, <1>2, <1>3, <1>4, IInvParts, IInvPrimed
<1> QED
    BY <1>1, <1>3, <1>5, StutterGood

LEMMA AbortGood == ASSUME IInv, Abort PROVE Good
<1> DEFINE rest == {p \in pending \ reply : p.kind \notin Cards}
<1>1. /\ EnterComplete(turn, "Aborted", rest)
      /\ rest \in SUBSET GoodPending /\ reply \subseteq Pending
      /\ "Aborted" \in Status /\ created' = created
    BY IInvParts DEF Abort, Status, user
<1>2. Outside'
    BY IInvParts DEF Abort, Outside, conversation, user
<1> HIDE DEF rest
<1>3. Goes(turn)
    BY <1>1, IInvParts, CompleteGoes DEF GoodTurn
<1> QED
    BY <1>1, <1>2, <1>3, GoesGood

LEMMA RollbackGood == ASSUME IInv, Rollback PROVE Good
<1>1. /\ state = "Ready" /\ turn.id = 0 /\ log \in Seq(Entries) /\ log # << >>
      /\ log' = SubSeq(log, 1, Len(log) - 1)
      /\ state' = state /\ turn' = turn /\ pending' = pending /\ reply' = reply
      /\ created' = created
    BY IInvParts DEF Rollback
<1>2. Outside'
    BY IInvParts DEF Rollback, Outside, conversation
<1>3. log' \in Seq(Entries)
    BY <1>1
<1>6. history' \in Histories
    <2> DEFINE M == Seq(Messages)
    <2> HIDE DEF M
    <2>1. ASSUME history \in Seq(M)
          PROVE  history' \in Seq(M)
        BY <2>1 DEF Rollback
    <2> QED
        BY <2>1, IInvParts DEF Histories, M
<1>4. IInv'
    BY <1>1, <1>2, <1>3, <1>6, IInvParts, IInvPrimed
<1>5. Turn!TakeBack
    BY <1>1 DEF Turn!TakeBack
<1> QED
    BY <1>4, <1>5 DEF Good, Refines, Turn!Next

(* Setting a retry timer, or giving up. *)
LEMMA RetryGood ==
    ASSUME IInv, NEW r \in GoodPending, r.kind \in Replies,
           NEW rest \in SUBSET GoodPending, RetryOrError(r, rest),
           Outside', created' = created
    PROVE  Good
<1>1. /\ GoodTurn(turn) /\ turn.id \in Nat /\ reply \subseteq Pending
    BY IInvParts, TurnsAre DEF GoodTurn
<1>2. CASE EnterError(turn, rest)
    BY <1>1, <1>2, ErrorGoes, GoesGood DEF GoodTurn
<1>3. ASSUME r.retries < RetryLimit,
             pending' = rest \cup {[r EXCEPT !.kind = TimerOf[r.kind], !.turn = turn.id]},
             UNCHANGED <<state, turn, reply, log, history>>
      PROVE  Good
    <2> DEFINE kind == TimerOf[r.kind]
               i == turn.id
               timer == [r EXCEPT !.kind = kind, !.turn = i]
    <2>1. kind \in Timers
        BY DEF TimerOf, Timers, Replies
    <2>2. r \in Pending /\ i \in Nat
        BY <1>1 DEF GoodPending
    <2>3. timer \in Pending
        <3> HIDE DEF kind, i
        <3> QED
            BY <2>1, <2>2 DEF Pending, Timers
    <2>4. timer.retries = r.retries
        BY <2>2 DEF Pending
    <2>5. timer \in GoodPending
        BY <1>3, <2>3, <2>4 DEF GoodPending
    <2>6. pending' \subseteq GoodPending
        BY <1>3, <2>5
    <2>7. IInv'
        BY <1>3, <2>6, IInvParts, IInvPrimed
    <2> QED
        BY <1>3, <2>7, StutterGood
<1> QED
    BY <1>2, <1>3 DEF RetryOrError

LEMMA SummarisedGood ==
    ASSUME IInv, NEW r \in GoodPending, Summarised(r), UNCHANGED <<user, consents>>
    PROVE  Good
<1> DEFINE t == [turn EXCEPT !.compacted = 0]
           rest == pending \ {r}
<1>1. /\ turn \in Turns /\ turn.id \in Nat /\ turn.compacted \in Nat
      /\ turn.callCount < CallLimit /\ turn.failures < FailureLimit
      /\ log \in Seq(Entries) /\ rest \in SUBSET GoodPending /\ r.run \in Nat
    BY IInvParts, TurnsAre DEF GoodTurn, GoodPending, Pending
<1>2. /\ t \in Turns /\ t.id = turn.id /\ t.callCount = turn.callCount
      /\ t.failures = turn.failures /\ t.index = turn.index /\ t.calls = turn.calls
    BY <1>1, TurnsAre
<1>3. created' = created
    BY DEF user
<1>4. Outside'
    <2>1. /\ compacted' \in Nat /\ usage' \in BOOLEAN
        BY <1>1 DEF Summarised
    <2>2. summary' \subseteq Nat
        BY <1>1, UncompactedInLog, IInvParts DEF Summarised, Outside
    <2> QED
        BY <2>1, <2>2, IInvParts DEF Outside, user
<1>5. CASE turn.id = 0
    <2>1. /\ state' = "Ready" /\ turn' = t /\ pending' = rest
          /\ reply' = reply /\ log' = log /\ history' = history
        BY <1>5 DEF Summarised
    <2> HIDE DEF t, rest
    <2>2. GoodTurn(turn')
        BY <1>1, <1>2, <2>1 DEF GoodTurn
    <2>3. "Ready" \in States
        BY DEF States
    <2>4. IInv'
        BY <1>1, <1>2, <1>4, <1>5, <2>1, <2>2, <2>3, IInvParts, IInvPrimed
    <2> QED
        BY <1>2, <1>3, <2>1, <2>4, StutterGood
<1>6. CASE turn.id # 0
    <2>1. EnterRequest(t, r.run, rest)
        BY <1>6 DEF Summarised
    <2> HIDE DEF t, rest
    <2>2. Goes(t)
        BY <1>1, <1>2, <2>1, RequestGoes DEF GoodTurn
    <2> QED
        BY <1>2, <1>3, <1>4, <2>2, GoesGood
<1> QED
    BY <1>5, <1>6

(* What the answers to a request have in common. *)
LEMMA AnswerFacts ==
    ASSUME IInv, NEW r \in pending
    PROVE  /\ r \in GoodPending /\ r.run \in Nat /\ r.retries \in 0 .. RetryLimit
           /\ r.index \in Nat /\ r.turn \in Nat
           /\ pending \ {r} \in SUBSET GoodPending
           /\ reply \subseteq Pending /\ log \in Seq(Entries)
           /\ GoodTurn(turn) /\ turn \in Turns /\ turn.id \in Nat
BY IInvParts, TurnsAre DEF GoodPending, Pending, GoodTurn

LEMMA FinishCompactGood ==
    ASSUME IInv, NEW r \in pending, FinishCompact(r)
    PROVE  Good
<1>1. created' = created
    BY DEF FinishCompact, user
<1>2. CASE Summarised(r)
    BY <1>2, AnswerFacts, SummarisedGood DEF FinishCompact
<1>3. CASE ~Summarised(r)
    <2>1. Outside'
        BY <1>3, IInvParts DEF FinishCompact, Outside, conversation, user
    <2>2. EnterError(turn, pending \ {r}) => Good
        BY <1>1, <2>1, AnswerFacts, ErrorGoes, GoesGood
    <2>3. RetryOrError(r, pending \ {r}) => Good
        BY <1>1, <2>1, AnswerFacts, RetryGood DEF FinishCompact, Replies
    <2> QED
        BY <1>3, <2>2, <2>3 DEF FinishCompact
<1> QED
    BY <1>2, <1>3

LEMMA ReceiveGood ==
    ASSUME IInv, NEW r \in pending, NEW what \in {"Think", "Response"}, Receive(r, what)
    PROVE  Good
<1> DEFINE n == turn.seen \cup {what}
<1>1. /\ state' = what /\ turn' = [turn EXCEPT !.seen = n]
      /\ pending' = pending /\ reply' = reply /\ log' = log /\ history' = history
      /\ created' = created
    BY DEF Receive, user
<1>2. Outside'
    BY IInvParts DEF Receive, Outside, conversation, user
<1>3. turn \in Turns /\ GoodTurn(turn) /\ n \in SUBSET {"Think", "Response"}
    BY AnswerFacts, TurnsAre
<1> HIDE DEF n
<1>4. /\ turn' \in Turns /\ turn'.callCount = turn.callCount
      /\ turn'.failures = turn.failures /\ turn'.id = turn.id
    BY <1>1, <1>3, TurnsAre
<1>5. GoodTurn(turn') /\ what \in States /\ what # "Ready" /\ what # "ToolExec"
    BY <1>3, <1>4 DEF GoodTurn, States, Streaming
<1>6. IInv'
    BY <1>1, <1>2, <1>4, <1>5, IInvParts, IInvPrimed
<1> QED
    BY <1>1, <1>4, <1>6, StutterGood

LEMMA MessagesWith ==
    ASSUME NEW f \in Seq(Messages), NEW i, NEW n \in Nat
    PROVE  [f EXCEPT ![i].filled = n] \in Seq(Messages)
<1>1. f \in [1 .. Len(f) -> Messages] /\ Len(f) \in Nat
    OBVIOUS
<1>2. ASSUME NEW m \in 1 .. Len(f)
      PROVE  [f[m] EXCEPT !.filled = n] \in Messages
    <2>1. f[m] \in Messages
        BY <1>1
    <2> QED
        BY <2>1 DEF Messages
<1> DEFINE v == [f[i] EXCEPT !.filled = n]
<1>3. [f EXCEPT ![i].filled = n] = [f EXCEPT ![i] = v]
    OBVIOUS
<1>4. i \in 1 .. Len(f) => v \in Messages
    BY <1>2
<1> HIDE DEF v
<1>5. [f EXCEPT ![i] = v] \in [1 .. Len(f) -> Messages]
    BY <1>1, <1>4
<1> QED
    BY <1>1, <1>3, <1>5, IsASeq

LEMMA FinishCallsEnters ==
    ASSUME IInv, NEW r \in pending, NEW batch \in Batches, FinishCalls(r, batch)
    PROVE  \E t : /\ t.id = turn.id /\ t.compacted = turn.compacted /\ GoodTurn(t)
                  /\ t.messages = [turn.messages EXCEPT ![r.index].filled = Len(batch)]
                                  \o [k \in 1 .. Len(batch) |-> Message("tool", 0)]
                  /\ t.calls = turn.calls
                               \o [k \in 1 .. Len(batch) |->
                                     [tool |-> batch[k],
                                      message |-> Len(turn.messages) + k]]
                  /\ t.index = turn.index /\ t.steering = turn.steering
                  /\ EnterToolCall(t, r.run, pending \ {r})
<1> DEFINE old == Len(turn.messages)
           asked == [turn.messages EXCEPT ![r.index].filled = Len(batch)]
           results == [k \in 1 .. Len(batch) |-> Message("tool", 0)]
           made == [k \in 1 .. Len(batch) |-> [tool |-> batch[k], message |-> old + k]]
           messages == asked \o results
           calls == turn.calls \o made
           t == [turn EXCEPT !.messages = messages, !.calls = calls]
<1>1. EnterToolCall(t, r.run, pending \ {r})
    BY DEF FinishCalls
<1>2. /\ turn \in Turns /\ turn.messages \in Seq(Messages) /\ turn.calls \in Seq(Calls)
      /\ old \in Nat /\ batch \in Seq(Tools) /\ Len(batch) \in Nat
    BY AnswerFacts, TurnsAre, AgentAssumption
<1>3. asked \in Seq(Messages)
    BY <1>2, MessagesWith
<1>4. results \in Seq(Messages)
    BY <1>2, MessageType, IsASeq
<1>5. made \in Seq(Calls)
    <2>1. \A k \in 1 .. Len(batch) : [tool |-> batch[k], message |-> old + k] \in Calls
        BY <1>2 DEF Calls
    <2> QED
        BY <1>2, <2>1, IsASeq
<1>6. messages \in Seq(Messages) /\ calls \in Seq(Calls)
    BY <1>2, <1>3, <1>4, <1>5
<1> HIDE DEF messages, calls
<1>7. /\ t \in Turns /\ t.id = turn.id /\ t.compacted = turn.compacted
      /\ t.callCount = turn.callCount /\ t.failures = turn.failures
      /\ t.messages = messages /\ t.calls = calls /\ t.index = turn.index
      /\ t.steering = turn.steering
    BY <1>2, <1>6, TurnsAre
<1> HIDE DEF t
<1>8. GoodTurn(t)
    BY <1>7, AnswerFacts DEF GoodTurn
<1> QED
    BY <1>1, <1>7, <1>8 DEF messages, calls

LEMMA FinishStreamGood ==
    ASSUME IInv, NEW r \in pending, FinishStream(r)
    PROVE  Good
<1>1. created' = created
    BY DEF FinishStream, user
<1>2. Outside'
    BY IInvParts DEF FinishStream, Outside, conversation, user
<1>3. ASSUME NEW batch \in Batches, FinishCalls(r, batch) PROVE Good
    <2>1. PICK t : t.id = turn.id /\ GoodTurn(t) /\ EnterToolCall(t, r.run, pending \ {r})
        BY <1>3, FinishCallsEnters
    <2>2. Goes(t)
        BY <2>1, AnswerFacts, ToolCallGoes
    <2> QED
        BY <1>1, <1>2, <2>1, <2>2, GoesGood
<1>4. ASSUME FinishStop(r) PROVE Good
    <2>1. EnterComplete(turn, "Completed", pending \ {r}) => Goes(turn)
        BY AnswerFacts, CompleteGoes DEF Status
    <2>2. EnterRequest(turn, r.run, pending \ {r}) => Goes(turn)
        BY AnswerFacts, RequestGoes
    <2>3. Goes(turn)
        BY <1>4, <2>1, <2>2 DEF FinishStop
    <2> QED
        BY <1>1, <1>2, <2>3, GoesGood
<1>5. EnterError(turn, pending \ {r}) => Good
    BY <1>1, <1>2, AnswerFacts, ErrorGoes, GoesGood
<1>6. RetryOrError(r, pending \ {r}) => Good
    BY <1>1, <1>2, AnswerFacts, RetryGood DEF FinishStream, Replies
<1> QED
    BY <1>3, <1>4, <1>5, <1>6 DEF FinishStream

LEMMA RetryTimerGood ==
    ASSUME IInv, NEW p \in pending, RetryTimer(p)
    PROVE  Good
<1>1. /\ state' = state /\ log' = log /\ history' = history /\ created' = created
      /\ p \in GoodPending /\ p.kind \in Timers /\ p.retries < RetryLimit
    BY AnswerFacts DEF RetryTimer, user, GoodPending
<1>2. usage' \in BOOLEAN
    BY IInvParts DEF RetryTimer, Outside
<1>3. Outside'
    BY <1>2, IInvParts DEF RetryTimer, Outside, conversation, user
<1>4. CASE /\ pending' = pending \ {p} /\ turn' = turn /\ reply' = reply
    <2>1. IInv'
        BY <1>1, <1>3, <1>4, IInvParts, IInvPrimed
    <2> QED
        BY <1>1, <1>4, <2>1, StutterGood
<1>5. CASE ~(/\ pending' = pending \ {p} /\ turn' = turn /\ reply' = reply)
    <2> DEFINE kind == IF p.kind = "streamTimer" THEN "stream" ELSE "compact"
               t == [turn EXCEPT !.seen = {}]
    <2>1. /\ Post(kind, turn, p.index, p.retries + 1, p.run, pending \ {p})
          /\ turn' = t \/ turn' = turn
        BY <1>5 DEF RetryTimer
    <2>2. kind \in Replies /\ p.retries + 1 \in 0 .. RetryLimit
        BY <1>1, AnswerFacts DEF Replies, RetryLimit
    <2> HIDE DEF kind
    <2>3. pending' \subseteq GoodPending /\ reply' \subseteq Pending
        BY <2>1, <2>2, AnswerFacts, PostGood
    <2>4. /\ t \in Turns /\ t.callCount = turn.callCount /\ t.failures = turn.failures
          /\ t.id = turn.id /\ t.index = turn.index /\ t.calls = turn.calls
        BY AnswerFacts, TurnsAre
    <2> HIDE DEF t
    <2>5. /\ GoodTurn(turn') /\ turn'.id = turn.id
          /\ turn'.index = turn.index /\ turn'.calls = turn.calls
        BY <2>1, <2>4, AnswerFacts DEF GoodTurn
    <2>6. IInv'
        BY <1>1, <1>3, <2>3, <2>5, IInvParts, IInvPrimed
    <2> QED
        BY <1>1, <2>5, <2>6, StutterGood
<1> QED
    BY <1>4, <1>5

LEMMA PermissionGood ==
    ASSUME IInv, NEW p \in pending, NEW status \in BOOLEAN, Permission(p, status)
    PROVE  Good
<1>1. created' = created /\ turn.index <= Len(turn.calls)
    BY DEF Permission, user
<1>2. Outside'
    <2>1. [turn |-> p.turn, index |-> p.index] \in [turn : Nat, index : Nat]
        BY AnswerFacts
    <2>2. consents' \subseteq [turn : Nat, index : Nat]
        BY <2>1, IInvParts DEF Permission, Outside
    <2> QED
        BY <2>2, IInvParts DEF Permission, Outside, conversation, user
<1>3. CASE ToolResultSet(turn, TRUE, p.run, pending \ {p})
    <2>1. Goes(turn)
        BY <1>1, <1>3, AnswerFacts, ToolResultGoes DEF GoodTurn
    <2> QED
        BY <1>1, <1>2, <2>1, GoesGood
<1>4. CASE ~ToolResultSet(turn, TRUE, p.run, pending \ {p})
    <2> DEFINE i == turn.id
               k == turn.index
               f == [p EXCEPT !.kind = "tool", !.turn = i, !.index = k]
    <2>1. /\ state' = "ToolExec" /\ turn' = turn /\ reply' = reply /\ log' = log
          /\ history' = history /\ pending' = (pending \ {p}) \cup {f}
        BY <1>4 DEF Permission
    <2>2. i \in Nat /\ k \in Nat /\ p \in Pending
        BY AnswerFacts, TurnsAre DEF GoodPending
    <2> HIDE DEF i, k
    <2>3. f \in Pending /\ f.kind = "tool"
        BY <2>2 DEF Pending
    <2>4. f \in GoodPending /\ "ToolExec" \in States
        BY <2>3 DEF GoodPending, Timers, States
    <2> HIDE DEF f
    <2>5. IInv'
        BY <1>1, <1>2, <2>1, <2>4, IInvParts, IInvPrimed
    <2> QED
        BY <1>1, <2>1, <2>5, StutterGood
<1> QED
    BY <1>3, <1>4

LEMMA UserInputGood ==
    ASSUME IInv, NEW p \in pending, NEW answered \in BOOLEAN, UserInput(p, answered)
    PROVE  Good
<1> DEFINE q == turn.questions /\ answered
           t == [turn EXCEPT !.questions = q]
<1>1. /\ created' = created /\ turn.index <= Len(turn.calls)
      /\ ToolResultSet(t, TRUE, p.run, pending \ {p})
    BY DEF UserInput, user
<1>2. Outside'
    BY IInvParts DEF UserInput, Outside, conversation, user
<1>3. q \in BOOLEAN
    OBVIOUS
<1> HIDE DEF q
<1>4. /\ t \in Turns /\ t.id = turn.id /\ t.failures = turn.failures
      /\ t.index = turn.index /\ t.calls = turn.calls
    BY <1>3, AnswerFacts, TurnsAre
<1> HIDE DEF t
<1>5. Goes(t)
    BY <1>1, <1>4, AnswerFacts, ToolResultGoes DEF GoodTurn
<1> QED
    BY <1>1, <1>2, <1>4, <1>5, GoesGood

LEMMA ToolDoneGood ==
    ASSUME IInv, NEW p \in pending, NEW success \in BOOLEAN, ToolDone(p, success)
    PROVE  Good
<1> DEFINE count == IF turn.calls[turn.index].tool = Plan THEN turn.callCount
                    ELSE turn.callCount + 1
           t == [turn EXCEPT !.callCount = count]
<1>1. created' = created
    BY DEF ToolDone, user
<1>2. Outside'
    BY IInvParts DEF ToolDone, Outside, conversation, user
<1>3. CASE UNCHANGED <<state, turn, reply, log, history>> /\ pending' = pending \ {p}
    <2>1. IInv'
        BY <1>2, <1>1, <1>3, IInvParts, IInvPrimed
    <2> QED
        BY <1>1, <1>3, <2>1, StutterGood
<1>4. CASE state = "ToolExec" /\ ToolResultSet(t, success, p.run, pending \ {p})
    <2>1. turn.index <= Len(turn.calls)
        BY <1>4, IInvParts
    <2>2. count \in Nat
        BY AnswerFacts, TurnsAre
    <2> HIDE DEF count
    <2>3. /\ t \in Turns /\ t.id = turn.id /\ t.failures = turn.failures
          /\ t.index = turn.index /\ t.calls = turn.calls
        BY <2>2, AnswerFacts, TurnsAre
    <2> HIDE DEF t
    <2>4. Goes(t)
        BY <1>4, <2>1, <2>3, AnswerFacts, ToolResultGoes DEF GoodTurn
    <2> QED
        BY <1>1, <1>2, <2>3, <2>4, GoesGood
<1> QED
    BY <1>3, <1>4 DEF ToolDone

LEMMA StepGood == IInv /\ [Next]_vars => Good
<1> SUFFICES ASSUME IInv, [Next]_vars PROVE Good
    OBVIOUS
<1>1. CASE UNCHANGED vars
    <2>1. IInv'
        BY <1>1, IInvParts, IInvPrimed DEF vars, Outside, conversation, user
    <2> QED
        BY <1>1, <2>1, StutterGood DEF vars, user
<1>2. CASE PreWithoutModel
    BY <1>2, PreWithoutModelGood
<1>3. CASE Pre
    BY <1>3, PreGood
<1>4. CASE Dispatch
    BY <1>4, DispatchGood
<1>5. CASE ManualCompact
    BY <1>5, ManualCompactGood
<1>6. CASE Steer
    BY <1>6, SteerGood
<1>7. CASE Abort
    BY <1>7, AbortGood
<1>8. CASE Rollback
    BY <1>8, RollbackGood
<1>9. CASE Provider
    BY <1>9, FinishCompactGood, FinishStreamGood DEF Provider
<1>10. CASE Timer
    BY <1>10, RetryTimerGood DEF Timer
<1>11. CASE Tool
    BY <1>11, ToolDoneGood DEF Tool
<1>12. CASE \E p \in pending, what \in {"Think", "Response"} : Receive(p, what)
    BY <1>12, ReceiveGood
<1>13. CASE \E p \in pending, status \in BOOLEAN : Permission(p, status)
    BY <1>13, PermissionGood
<1>14. CASE \E p \in pending, answered \in BOOLEAN : UserInput(p, answered)
    BY <1>14, UserInputGood
<1> QED
    BY <1>1, <1>2, <1>3, <1>4, <1>5, <1>6, <1>7, <1>8, <1>9, <1>10, <1>11,
       <1>12, <1>13, <1>14 DEF Next

-----------------------------------------------------------------------------

(***************************************************************************)
(* One driver, and consent per call.                                       *)
(***************************************************************************)

(* The kinds of answer a state waits for, as a relation. *)
Fits(s, kind) == \/ s = "Compact" /\ kind \in {"compact", "compactTimer"}
                 \/ s \in Streaming /\ kind \in {"stream", "streamTimer"}
                 \/ s = "Permission" /\ kind = "permission"
                 \/ s = "UserInput" /\ kind = "input"
                 \/ s = "ToolExec" /\ kind = "tool"

(* Only timers and tools of other turns are left. *)
Quiet(rest, id) == \A p \in rest : p.kind \in Timers \cup {"tool"} /\ p.turn # id

(* What is pending is of a turn that was created; tools have a turn, and   *)
(* timers without one are of a manual compaction.                          *)
Fine(p, begun, manual) == /\ p.turn <= begun
                          /\ p.kind = "tool" => p.turn # 0
                          /\ p.kind \in Timers /\ p.turn = 0 => manual # 0

(* d is what the machine waits for, and nothing else moves it on. *)
Drives(d) ==
    /\ Quiet(pending \ {d}, turn.id)
    /\ d.turn = turn.id
    /\ Fits(state, d.kind)
    /\ d.kind \in Replies => reply = {d}
    /\ d.kind \in Cards \cup {"tool"} => d.index = turn.index
    /\ d.kind = "tool" => \/ turn.calls[d.index].tool \in Approved
                          \/ [turn |-> d.turn, index |-> d.index] \in consents

(* The invariant, up to the second manual compaction. *)
Driven ==
    /\ Primary \/ compacts = 0
    /\ \A p \in pending : Fine(p, created, compacts)
    /\ turn.id = 0 /\ state # "Ready" => state = "Compact" /\ compacts # 0
    /\ state = "Ready" => \A p \in pending : p.kind \in Timers \cup {"tool"}
    /\ state # "Ready" => \E d \in pending : Drives(d)

(* What a chain of stateSet calls leaves pending: rest, and one answer it  *)
(* waits for, unless it came to Ready.                                     *)
Chain(id, rest) ==
    \/ state' = "Ready" /\ turn'.id = 0 /\ pending' = rest
    \/ /\ state' # "Ready" /\ turn'.id = id
       /\ \E d \in Pending :
             /\ pending' = rest \cup {d}
             /\ d.turn = id
             /\ Fits(state', d.kind)
             /\ d.kind \in Replies => reply' = {d}
             /\ d.kind \in Cards \cup {"tool"} => d.index = turn'.index
             /\ d.kind = "tool" => turn'.calls[d.index].tool \in Approved

LEMMA CompleteChain ==
    ASSUME NEW t, NEW status, NEW rest, EnterComplete(t, status, rest)
    PROVE  Chain(t.id, rest)
BY NoTurnGood DEF EnterComplete, Chain

LEMMA RequestChain ==
    ASSUME NEW t \in Turns, NEW run \in Nat, NEW rest, EnterRequest(t, run, rest)
    PROVE  Chain(t.id, rest) /\ state' = "Request"
<1> DEFINE heard == IF t.steering = 0 THEN t.messages
                    ELSE Append(t.messages, Message("user", t.steering))
           asked == Append(heard, Message("assistant", 0))
           d == [kind |-> "stream", turn |-> t.id, index |-> Len(heard) + 1,
                 retries |-> 0, run |-> run]
<1>1. /\ t.messages \in Seq(Messages) /\ t.steering \in Nat /\ t.id \in Nat
    BY TurnsAre
<1>2. Len(heard) + 1 \in Nat
    BY <1>1, MessageType
<1>3. d \in Pending /\ d.kind = "stream" /\ d.turn = t.id
    BY <1>1, <1>2 DEF Pending, RetryLimit
<1>4. /\ state' = "Request"
      /\ turn' = [t EXCEPT !.messages = asked, !.steering = 0, !.seen = {}]
      /\ pending' = rest \cup {d} /\ reply' = {d}
    BY DEF EnterRequest, Post
<1> HIDE DEF d, asked, heard
<1>5. turn'.id = t.id
    BY <1>4, TurnsAre
<1> QED
    BY <1>3, <1>4, <1>5 DEF Chain, Fits, Streaming, Replies, Cards

LEMMA CompactChain ==
    ASSUME NEW t \in Turns, NEW run \in Nat, NEW rest, EnterCompact(t, run, rest)
    PROVE  Chain(t.id, rest) /\ state' = "Compact"
<1> DEFINE d == [kind |-> "compact", turn |-> t.id, index |-> 0,
                 retries |-> 0, run |-> run]
<1>1. t.id \in Nat
    BY TurnsAre
<1>2. d \in Pending /\ d.kind = "compact" /\ d.turn = t.id
    BY <1>1 DEF Pending, RetryLimit
<1>3. PICK cut : /\ state' = "Compact"
                 /\ turn' = [t EXCEPT !.compacted = cut]
                 /\ pending' = rest \cup {d} /\ reply' = {d}
    BY DEF EnterCompact, Post
<1> HIDE DEF d
<1>4. turn'.id = t.id
    BY <1>3, TurnsAre
<1> QED
    BY <1>2, <1>3, <1>4 DEF Chain, Fits, Replies, Cards

LEMMA ToolCallChain ==
    ASSUME NEW t, GoodTurn(t), NEW run \in Nat, NEW rest, EnterToolCall(t, run, rest)
    PROVE  Chain(t.id, rest)
<1> DEFINE U(n) == Answered(t, t.index, n - 1)
           W(n, kind) == [kind |-> kind, turn |-> t.id, index |-> n,
                          retries |-> 0, run |-> run]
<1>1. PICK n \in t.index .. Len(t.calls) + 1 :
          \/ EnterRequest(U(n), run, rest)
          \/ \E where \in {"UserInput", "ToolExec", "Permission"},
                kind \in {"input", "tool", "permission"} :
                /\ Fits(where, kind)
                /\ kind = "tool" => t.calls[n].tool \in Approved
                /\ state' = where /\ turn' = U(n) /\ pending' = rest \cup {W(n, kind)}
    BY DEF EnterToolCall, Fits
<1>2. /\ t \in Turns /\ t.id \in Nat /\ t.index \in Nat \ {0}
      /\ t.failures < FailureLimit /\ Len(t.calls) \in Nat
    BY TurnsAre DEF GoodTurn
<1>3. n \in Nat \ {0} /\ n - 1 \in Nat /\ t.index <= n
    BY <1>2
<1>4. U(n) \in Turns /\ U(n).id = t.id /\ U(n).calls = t.calls /\ U(n).index = n
    <2>1. U(n).index = IF n - 1 < t.index THEN t.index ELSE (n - 1) + 1
        BY <1>2, <1>3, AnsweredGood
    <2>2. U(n).index = n
        BY <2>1, <1>2, <1>3
    <2> QED
        BY <1>2, <1>3, <2>2, AnsweredGood
<1>5. CASE EnterRequest(U(n), run, rest)
    <2> HIDE DEF U
    <2> QED
        BY <1>4, <1>5, RequestChain
<1>6. ASSUME NEW where \in {"UserInput", "ToolExec", "Permission"},
             NEW kind \in {"input", "tool", "permission"},
             Fits(where, kind), kind = "tool" => t.calls[n].tool \in Approved,
             state' = where, turn' = U(n), pending' = rest \cup {W(n, kind)}
      PROVE  Chain(t.id, rest)
    <2>1. /\ W(n, kind) \in Pending /\ W(n, kind).kind = kind
          /\ W(n, kind).turn = t.id /\ W(n, kind).index = n
        BY <1>2, <1>3 DEF Pending, RetryLimit
    <2> HIDE DEF U, W
    <2> QED
        BY <1>4, <1>6, <2>1 DEF Chain, Replies
<1> HIDE DEF U, W
<1> QED
    BY <1>1, <1>5, <1>6

LEMMA ToolResultChain ==
    ASSUME NEW t \in Turns, t.failures < FailureLimit, t.index <= Len(t.calls),
           NEW success \in BOOLEAN, NEW run \in Nat, NEW rest,
           ToolResultSet(t, success, run, rest)
    PROVE  Chain(t.id, rest)
<1> DEFINE tool == t.calls[t.index].tool
           a == Answered(t, t.index, t.index)
           failed == IF success THEN {} ELSE {tool}
           count == IF success THEN 0
                    ELSE IF t.failedTool = {tool} THEN t.failures + 1 ELSE 1
           done == [a EXCEPT !.failedTool = failed, !.failures = count]
<1>1. IF done.failures >= FailureLimit \/ done.callCount >= CallLimit
      THEN EnterError(done, rest)
      ELSE EnterToolCall(done, run, rest)
    BY DEF ToolResultSet
<1>2. t.index \in Nat \ {0} /\ t.failures \in Nat /\ t.calls \in Seq(Calls)
    BY TurnsAre
<1>3. tool \in Tools
    <2>1. t.calls[t.index] \in Calls
        BY <1>2
    <2> QED
        BY <2>1 DEF Calls
<1>4. failed \in SUBSET Tools /\ count \in Nat
    BY <1>2, <1>3
<1>5. a \in Turns /\ a.id = t.id
    BY <1>2, AnsweredGood
<1> HIDE DEF tool, a, failed, count
<1>6. done \in Turns /\ done.id = t.id
    BY <1>4, <1>5, TurnsAre
<1> HIDE DEF done
<1>7. CASE done.failures >= FailureLimit \/ done.callCount >= CallLimit
    BY <1>1, <1>6, <1>7, CompleteChain DEF EnterError
<1>8. CASE ~(done.failures >= FailureLimit \/ done.callCount >= CallLimit)
    <2>1. done.failures \in Nat /\ done.callCount \in Nat
        BY <1>6, TurnsAre
    <2>2. GoodTurn(done)
        BY <1>6, <1>8, <2>1, AgentAssumption DEF GoodTurn
    <2> QED
        BY <1>1, <1>6, <1>8, <2>2, ToolCallChain
<1> QED
    BY <1>7, <1>8

-----------------------------------------------------------------------------

LEMMA PendingKinds ==
    ASSUME NEW p \in Pending
    PROVE  /\ p.kind \in Replies \cup Timers \cup Cards \cup {"tool"}
           /\ p.turn \in Nat /\ p.index \in Nat
BY DEF Pending, Replies, Timers, Cards

(* What its handler will not drop is what the machine waits for. *)
LEMMA EffectiveDrives ==
    ASSUME IInv, Driven, NEW p \in pending, Effective(p)
    PROVE  state # "Ready" /\ Drives(p)
<1>1. state # "Ready"
    BY DEF Driven, Effective, Timers, Replies, Cards
<1>2. PICK d \in pending : Drives(d)
    BY <1>1 DEF Driven
<1>3. p # d => p.kind \in Timers \cup {"tool"} /\ p.turn # turn.id
    BY <1>2 DEF Drives, Quiet
<1>4. p = d
    BY <1>3 DEF Effective, Timers, Replies, Cards
<1> QED
    BY <1>1, <1>2, <1>4

LEMMA ChainKeeps ==
    ASSUME NEW id \in Nat, NEW rest, Chain(id, rest), Quiet(rest, id),
           \A p \in rest : Fine(p, created', compacts'),
           id <= created', Primary \/ compacts' = 0,
           id = 0 => state' \in {"Ready", "Compact"} /\ compacts' # 0
    PROVE  Driven'
<1>1. CASE state' = "Ready" /\ turn'.id = 0 /\ pending' = rest
    BY <1>1 DEF Driven, Quiet
<1>2. CASE state' # "Ready" /\ turn'.id = id
    <2>1. PICK d \in Pending :
             /\ pending' = rest \cup {d}
             /\ d.turn = id
             /\ Fits(state', d.kind)
             /\ d.kind \in Replies => reply' = {d}
             /\ d.kind \in Cards \cup {"tool"} => d.index = turn'.index
             /\ d.kind = "tool" => turn'.calls[d.index].tool \in Approved
        BY <1>2 DEF Chain
    <2>2. d.kind = "tool" => id # 0
        BY <1>2, <2>1 DEF Fits, Streaming
    <2>3. Fine(d, created', compacts')
        BY <2>1, <2>2 DEF Fine
    <2>4. Drives(d)'
        BY <1>2, <2>1 DEF Drives, Quiet
    <2> QED
        BY <1>2, <2>1, <2>3, <2>4 DEF Driven
<1> QED
    BY <1>1, <1>2 DEF Chain

(* An answer the machine waits for, and a chain for the turn in progress.  *)
LEMMA AnswerKeeps ==
    ASSUME IInv, Driven, NEW p \in pending, Effective(p), Chain(turn.id, pending \ {p}),
           turn.id # 0 \/ state' \in {"Ready", "Compact"},
           UNCHANGED user
    PROVE  Driven'
<1>1. state # "Ready" /\ Drives(p)
    BY EffectiveDrives
<1>2. turn.id \in Nat /\ created \in Nat /\ turn.id <= created
    BY IInvParts, TurnsAre DEF GoodTurn, Outside
<1>3. turn.id = 0 => state' \in {"Ready", "Compact"} /\ compacts' # 0
    BY <1>1 DEF Driven, user
<1>4. \A q \in pending \ {p} : Fine(q, created', compacts')
    BY DEF Driven, user
<1>5. Quiet(pending \ {p}, turn.id)
    BY <1>1 DEF Drives
<1>6. created' = created /\ compacts' = compacts /\ (Primary \/ compacts' = 0)
    BY DEF user, Driven
<1> QED
    BY <1>2, <1>3, <1>4, <1>5, <1>6, ChainKeeps

(* Something nobody waits for is dropped. *)
LEMMA DropKeeps ==
    ASSUME Driven, NEW p \in pending, ~Drives(p), pending' = pending \ {p},
           UNCHANGED <<state, turn, reply, user, consents>>
    PROVE  Driven'
<1>1. ASSUME NEW d \in pending, Drives(d)
      PROVE  d \in pending' /\ Drives(d)'
    BY <1>1 DEF Drives, Quiet
<1> QED
    BY <1>1 DEF Driven, user

(* Steps in which the machine waits for the same. *)
LEMMA SameKeeps ==
    ASSUME Driven, pending' = pending, reply' = reply, turn'.id = turn.id,
           turn'.index = turn.index, turn'.calls = turn.calls,
           UNCHANGED <<state, consents>>, created' = created, compacts' = compacts
    PROVE  Driven'
<1>1. ASSUME NEW d \in pending, Drives(d)
      PROVE  Drives(d)'
    BY <1>1 DEF Drives, Quiet
<1> QED
    BY <1>1 DEF Driven

-----------------------------------------------------------------------------

(* What is idle stays so. *)
LEMMA PreWithoutModelDriven ==
    ASSUME Driven, PreWithoutModel
    PROVE  Driven'
BY DEF PreWithoutModel, Driven, user

LEMMA BeginDriven ==
    ASSUME IInv, Driven, state = "Ready", created' = created + 1, compacts' = compacts,
           Chain(created + 1, pending)
    PROVE  Driven'
<1>1. created \in Nat
    BY IInvParts DEF Outside
<1>2. \A p \in pending : p.turn \in Nat
    BY AnswerFacts
<1>3. Quiet(pending, created + 1)
    BY <1>1, <1>2 DEF Driven, Quiet, Fine
<1>4. \A p \in pending : Fine(p, created', compacts')
    BY <1>1, <1>2 DEF Driven, Fine
<1>5. created + 1 \in Nat /\ created + 1 # 0 /\ created + 1 <= created'
    BY <1>1
<1>6. Primary \/ compacts' = 0
    BY DEF Driven
<1> QED
    BY <1>3, <1>4, <1>5, <1>6, ChainKeeps

LEMMA PreDriven ==
    ASSUME IInv, Driven, Pre
    PROVE  Driven'
<1>1. /\ created \in Nat /\ compacts \in Nat /\ Run + 1 \in Nat
      /\ NewTurn \in Turns /\ NewTurn.id = created + 1
    BY IInvParts, NewTurnGood DEF Outside, Run, GoodTurn
<1>2. Chain(created + 1, pending)
    BY <1>1, RequestChain, CompactChain DEF Pre
<1> QED
    BY <1>2, BeginDriven DEF Pre

LEMMA DispatchDriven ==
    ASSUME IInv, Driven, Dispatch
    PROVE  Driven'
<1>1. /\ created \in Nat /\ compacts \in Nat /\ Run + 1 \in Nat
      /\ NewTurn \in Turns /\ NewTurn.id = created + 1
    BY IInvParts, NewTurnGood DEF Outside, Run, GoodTurn
<1>2. Chain(created + 1, pending)
    BY <1>1, RequestChain DEF Dispatch
<1>3. turn.id = 0
    BY IInvParts DEF Dispatch
<1>4. state = "Ready"
    BY <1>3 DEF Driven, Dispatch
<1>5. created' = created + 1
    BY DEF Dispatch
<1> QED
    BY <1>2, <1>4, <1>5, BeginDriven DEF Dispatch

(* The first manual compaction finds no timer of another one. *)
LEMMA ManualCompactDriven ==
    ASSUME IInv, Driven, ManualCompact, compacts' <= 1
    PROVE  Driven'
<1>1. /\ created \in Nat /\ compacts \in Nat /\ Run + 1 \in Nat
      /\ turn \in Turns /\ turn.id = 0 /\ state = "Ready"
    BY IInvParts DEF Outside, Run, GoodTurn, ManualCompact
<1>2. compacts = 0 /\ compacts' = 1 /\ created' = created
    BY <1>1 DEF ManualCompact
<1>3. Chain(0, pending) /\ state' = "Compact"
    BY <1>1, CompactChain DEF ManualCompact
<1>4. Quiet(pending, 0)
    BY <1>1, <1>2 DEF Driven, Fine, Quiet
<1>5. \A p \in pending : Fine(p, created', compacts')
    BY <1>2 DEF Driven, Fine
<1>6. Primary
    BY DEF ManualCompact
<1> QED
    BY <1>1, <1>2, <1>3, <1>4, <1>5, <1>6, ChainKeeps

LEMMA SteerDriven ==
    ASSUME IInv, Driven, Steer
    PROVE  Driven'
<1>1. turn'.id = turn.id /\ turn'.index = turn.index /\ turn'.calls = turn.calls
    <2> DEFINE n == turn.steering + 1
    <2>1. turn' = [turn EXCEPT !.steering = n] /\ turn \in Turns
        BY IInvParts DEF Steer, GoodTurn
    <2> HIDE DEF n
    <2> QED
        BY <2>1, TurnsAre
<1> QED
    BY <1>1, SameKeeps DEF Steer

LEMMA RollbackDriven ==
    ASSUME Driven, Rollback
    PROVE  Driven'
BY SameKeeps DEF Rollback

(* The reply and the cards go; timers and tools of the turn may stay. *)
LEMMA AbortDriven ==
    ASSUME IInv, Driven, Abort
    PROVE  Driven'
<1>1. /\ state' = "Ready" /\ pending' = {p \in pending \ reply : p.kind \notin Cards}
      /\ created' = created /\ compacts' = compacts
    BY DEF Abort, EnterComplete, user
<1>2. PICK d \in pending : Drives(d)
    BY DEF Driven, Abort
<1>3. ASSUME NEW p \in pending'
      PROVE  p.kind \in Timers \cup {"tool"}
    <2>1. p \in pending /\ p \notin reply /\ p.kind \notin Cards
        BY <1>1
    <2>2. CASE p # d
        BY <1>2, <2>1, <2>2 DEF Drives, Quiet
    <2>3. CASE p = d
        <3>1. p.kind \notin Replies
            BY <1>2, <2>1, <2>3 DEF Drives
        <3>2. p \in Pending
            BY <2>1, AnswerFacts DEF GoodPending
        <3> QED
            BY <2>1, <3>1, <3>2, PendingKinds
    <2> QED
        BY <2>2, <2>3
<1>4. \A p \in pending' : Fine(p, created', compacts')
    BY <1>1 DEF Driven
<1> QED
    BY <1>1, <1>3, <1>4 DEF Driven

(* The timer of a failed request takes its place. *)
LEMMA RetryOrErrorDriven ==
    ASSUME IInv, Driven, NEW r \in pending, r.kind \in Replies,
           RetryOrError(r, pending \ {r}), UNCHANGED <<user, consents>>
    PROVE  Driven'
<1>1. Effective(r)
    BY DEF Effective
<1>2. state # "Ready" /\ Drives(r)
    BY <1>1, EffectiveDrives
<1>3. CASE EnterError(turn, pending \ {r})
    <2>1. Chain(turn.id, pending \ {r})
        BY <1>3, CompleteChain DEF EnterError
    <2>2. state' = "Ready"
        BY <1>3 DEF EnterError, EnterComplete
    <2> QED
        BY <1>1, <2>1, <2>2, AnswerKeeps
<1>4. CASE ~EnterError(turn, pending \ {r})
    <2> DEFINE kind == TimerOf[r.kind]
               i == turn.id
    <2>1. PICK timer : timer = [r EXCEPT !.kind = kind, !.turn = i]
        OBVIOUS
    <2>2. /\ pending' = (pending \ {r}) \cup {timer}
          /\ state' = state /\ turn' = turn /\ reply' = reply
          /\ created' = created /\ compacts' = compacts /\ consents' = consents
        BY <1>4, <2>1 DEF RetryOrError, user
    <2>3. kind \in Timers /\ Fits(state, kind)
        BY <1>2 DEF Drives, Fits, Replies, TimerOf, Timers, Streaming
    <2>4. r \in Pending
        BY AnswerFacts DEF GoodPending
    <2> HIDE DEF kind, i
    <2>5. timer.kind = kind /\ timer.turn = turn.id
        BY <2>1, <2>4 DEF Pending, i
    <2>6. turn.id \in Nat /\ turn.id <= created
        BY IInvParts, TurnsAre DEF GoodTurn, Outside
    <2>7. Fine(timer, created, compacts)
        BY <1>2, <2>3, <2>5, <2>6 DEF Fine, Driven, Timers
    <2>8. Quiet(pending' \ {timer}, turn.id)
        BY <1>2, <2>2 DEF Drives, Quiet
    <2>9. Drives(timer)'
        BY <2>2, <2>3, <2>5, <2>8 DEF Drives, Quiet, Timers, Replies, Cards
    <2> QED
        BY <1>2, <2>2, <2>7, <2>9 DEF Driven
<1> QED
    BY <1>3, <1>4

LEMMA FinishCompactDriven ==
    ASSUME IInv, Driven, NEW r \in pending, FinishCompact(r)
    PROVE  Driven'
<1>1. /\ r.kind \in Replies /\ r.kind = "compact" /\ r.run \in Nat
      /\ UNCHANGED user /\ UNCHANGED consents
    BY AnswerFacts DEF FinishCompact, Replies
<1>2. Effective(r)
    BY <1>1 DEF Effective
<1>3. CASE Summarised(r)
    <2> DEFINE t == [turn EXCEPT !.compacted = 0]
    <2>1. t \in Turns /\ t.id = turn.id
        BY AnswerFacts, TurnsAre
    <2>2. CASE turn.id = 0
        <3>1. state' = "Ready" /\ turn' = t /\ pending' = pending \ {r}
            BY <1>3, <2>2 DEF Summarised
        <3> HIDE DEF t
        <3>2. Chain(turn.id, pending \ {r})
            BY <2>1, <2>2, <3>1 DEF Chain
        <3> QED
            BY <1>1, <1>2, <3>1, <3>2, AnswerKeeps
    <2>3. CASE turn.id # 0
        <3>1. EnterRequest(t, r.run, pending \ {r})
            BY <1>3, <2>3 DEF Summarised
        <3> HIDE DEF t
        <3>2. Chain(turn.id, pending \ {r})
            BY <1>1, <2>1, <3>1, RequestChain
        <3> QED
            BY <1>1, <1>2, <2>3, <3>2, AnswerKeeps
    <2> QED
        BY <2>2, <2>3
<1>4. EnterError(turn, pending \ {r}) => Driven'
    <2> SUFFICES ASSUME EnterError(turn, pending \ {r}) PROVE Driven'
        OBVIOUS
    <2>1. Chain(turn.id, pending \ {r}) /\ state' = "Ready"
        BY CompleteChain DEF EnterError, EnterComplete
    <2> QED
        BY <1>1, <1>2, <2>1, AnswerKeeps
<1>5. RetryOrError(r, pending \ {r}) => Driven'
    BY <1>1, RetryOrErrorDriven
<1> QED
    BY <1>3, <1>4, <1>5 DEF FinishCompact

LEMMA ReceiveDriven ==
    ASSUME IInv, Driven, NEW r \in pending, NEW what \in {"Think", "Response"},
           Receive(r, what)
    PROVE  Driven'
<1> DEFINE n == turn.seen \cup {what}
<1>1. /\ state' = what /\ turn' = [turn EXCEPT !.seen = n] /\ pending' = pending
      /\ reply' = reply /\ created' = created /\ compacts' = compacts
      /\ consents' = consents /\ r.kind = "stream"
    BY DEF Receive, user
<1> HIDE DEF n
<1>2. turn'.id = turn.id /\ turn'.index = turn.index /\ turn'.calls = turn.calls
    BY <1>1, AnswerFacts, TurnsAre
<1>3. state # "Ready" /\ Drives(r)
    BY <1>1, EffectiveDrives DEF Effective, Replies
<1>4. turn.id # 0
    BY <1>1, <1>3 DEF Driven, Drives, Fits, Streaming
<1>5. Drives(r)'
    BY <1>1, <1>2, <1>3 DEF Drives, Quiet, Fits, Streaming
<1> QED
    BY <1>1, <1>2, <1>4, <1>5 DEF Driven

(* The answer to a stream is of a turn, not of a manual compaction. *)
LEMMA FinishStreamDriven ==
    ASSUME IInv, Driven, NEW r \in pending, FinishStream(r)
    PROVE  Driven'
<1>1. /\ r.kind \in Replies /\ r.kind = "stream" /\ r.run \in Nat
      /\ UNCHANGED user /\ UNCHANGED consents
    BY AnswerFacts DEF FinishStream, Replies
<1>2. Effective(r)
    BY <1>1 DEF Effective
<1>3. turn.id # 0
    BY <1>1, <1>2, EffectiveDrives DEF Driven, Drives, Fits, Streaming
<1>4. Chain(turn.id, pending \ {r}) => Driven'
    BY <1>1, <1>2, <1>3, AnswerKeeps
<1>5. ASSUME NEW batch \in Batches, FinishCalls(r, batch) PROVE Chain(turn.id, pending \ {r})
    <2>1. PICK t : t.id = turn.id /\ GoodTurn(t) /\ EnterToolCall(t, r.run, pending \ {r})
        BY <1>5, FinishCallsEnters
    <2> QED
        BY <1>1, <2>1, ToolCallChain
<1>6. FinishStop(r) => Chain(turn.id, pending \ {r})
    BY <1>1, AnswerFacts, CompleteChain, RequestChain DEF FinishStop
<1>7. EnterError(turn, pending \ {r}) => Chain(turn.id, pending \ {r})
    BY CompleteChain DEF EnterError
<1>8. RetryOrError(r, pending \ {r}) => Driven'
    BY <1>1, RetryOrErrorDriven
<1> QED
    BY <1>4, <1>5, <1>6, <1>7, <1>8 DEF FinishStream

LEMMA RetryTimerDriven ==
    ASSUME IInv, Driven, NEW p \in pending, RetryTimer(p)
    PROVE  Driven'
<1>1. /\ state' = state /\ UNCHANGED user /\ UNCHANGED consents
      /\ p \in Pending /\ p.kind \in Timers /\ p.retries < RetryLimit
    BY AnswerFacts DEF RetryTimer, GoodPending
<1>2. CASE /\ turn.id # p.turn \/ state = "Ready"
           /\ pending' = pending \ {p}
           /\ UNCHANGED <<turn, reply, usage>>
    <2>1. ~Drives(p)
        BY <1>2 DEF Drives, Fits, Streaming
    <2> QED
        BY <1>1, <1>2, <2>1, DropKeeps
<1>3. CASE ~(/\ turn.id # p.turn \/ state = "Ready"
             /\ pending' = pending \ {p}
             /\ UNCHANGED <<turn, reply, usage>>)
    <2> DEFINE kind == IF p.kind = "streamTimer" THEN "stream" ELSE "compact"
               i == turn.id
               t == [turn EXCEPT !.seen = {}]
    <2>1. /\ turn.id = p.turn /\ state # "Ready"
          /\ Post(kind, turn, p.index, p.retries + 1, p.run, pending \ {p})
          /\ turn' = t \/ turn' = turn
        BY <1>3 DEF RetryTimer
    <2>2. Effective(p)
        BY <1>1, <2>1 DEF Effective
    <2>3. Drives(p)
        BY <2>2, EffectiveDrives
    <2>4. kind \in Replies /\ Fits(state, kind)
        BY <1>1, <2>3 DEF Drives, Fits, Replies, Timers, Streaming
    <2>5. /\ t.id = turn.id /\ t.index = turn.index /\ t.calls = turn.calls
        BY AnswerFacts, TurnsAre
    <2>6. /\ turn'.id = turn.id /\ turn'.index = turn.index /\ turn'.calls = turn.calls
        BY <2>1, <2>5
    <2>7. PICK d : d = [kind |-> kind, turn |-> i, index |-> p.index,
                        retries |-> p.retries + 1, run |-> p.run]
        OBVIOUS
    <2>8. pending' = (pending \ {p}) \cup {d} /\ reply' = {d}
        BY <2>1, <2>7 DEF Post
    <2>9. i \in Nat /\ p.retries + 1 \in 0 .. RetryLimit
        BY <1>1, AnswerFacts DEF RetryLimit
    <2>10. d \in Pending /\ d.kind = kind /\ d.turn = turn.id
        BY <1>1, <2>4, <2>7, <2>9 DEF Pending, Replies
    <2> HIDE DEF kind, i, t
    <2>11. Chain(turn.id, pending \ {p})
        BY <1>1, <2>1, <2>4, <2>6, <2>8, <2>10 DEF Chain, Replies, Cards
    <2>12. turn.id # 0 \/ state' \in {"Ready", "Compact"}
        BY <1>1, <2>1 DEF Driven
    <2> QED
        BY <1>1, <2>2, <2>11, <2>12, AnswerKeeps
<1> QED
    BY <1>2, <1>3

(* The card and the tool it lets run are of one call. *)
LEMMA PermissionDriven ==
    ASSUME IInv, Driven, NEW p \in pending, NEW status \in BOOLEAN, Permission(p, status)
    PROVE  Driven'
<1>1. /\ UNCHANGED user /\ p.kind = "permission" /\ turn.index <= Len(turn.calls)
      /\ created' = created /\ compacts' = compacts
    BY DEF Permission, user
<1>2. Effective(p)
    BY <1>1 DEF Effective, Cards
<1>3. state # "Ready" /\ Drives(p)
    BY <1>2, EffectiveDrives
<1>4. turn.id # 0
    BY <1>1, <1>3 DEF Driven, Drives, Fits, Streaming
<1>5. CASE ToolResultSet(turn, TRUE, p.run, pending \ {p})
    <2>1. Chain(turn.id, pending \ {p})
        BY <1>1, <1>5, AnswerFacts, ToolResultChain DEF GoodTurn
    <2> QED
        BY <1>1, <1>2, <1>4, <2>1, AnswerKeeps
<1>6. CASE ~ToolResultSet(turn, TRUE, p.run, pending \ {p})
    <2> DEFINE i == turn.id
               k == turn.index
    <2>1. PICK f : f = [p EXCEPT !.kind = "tool", !.turn = i, !.index = k]
        OBVIOUS
    <2>2. /\ state' = "ToolExec" /\ turn' = turn /\ reply' = reply
          /\ pending' = (pending \ {p}) \cup {f}
          /\ consents' = consents \cup {[turn |-> p.turn, index |-> p.index]}
        BY <1>6, <2>1 DEF Permission
    <2>3. p \in Pending /\ turn.id \in Nat /\ turn.id <= created
        BY AnswerFacts, IInvParts DEF GoodPending, Outside
    <2>4. f.kind = "tool" /\ f.turn = turn.id /\ f.index = turn.index
        BY <2>1, <2>3 DEF Pending
    <2>5. p.turn = turn.id /\ p.index = turn.index
        BY <1>1, <1>3 DEF Drives, Cards
    <2> HIDE DEF i, k
    <2>6. Fine(f, created, compacts)
        BY <1>4, <2>3, <2>4 DEF Fine, Timers
    <2>7. [turn |-> f.turn, index |-> f.index] \in consents'
        BY <2>2, <2>4, <2>5
    <2>8. Quiet(pending' \ {f}, turn.id)
        BY <1>3, <2>2 DEF Drives, Quiet
    <2>9. Drives(f)'
        BY <2>2, <2>4, <2>7, <2>8 DEF Drives, Quiet, Fits, Replies
    <2> QED
        BY <1>1, <1>4, <2>2, <2>6, <2>9 DEF Driven
<1> QED
    BY <1>5, <1>6

LEMMA UserInputDriven ==
    ASSUME IInv, Driven, NEW p \in pending, NEW answered \in BOOLEAN,
           UserInput(p, answered)
    PROVE  Driven'
<1> DEFINE q == turn.questions /\ answered
           t == [turn EXCEPT !.questions = q]
<1>1. /\ UNCHANGED user /\ p.kind = "input" /\ turn.index <= Len(turn.calls)
      /\ ToolResultSet(t, TRUE, p.run, pending \ {p}) /\ UNCHANGED consents
    BY DEF UserInput
<1>2. Effective(p)
    BY <1>1 DEF Effective, Cards
<1>3. state # "Ready" /\ Drives(p)
    BY <1>2, EffectiveDrives
<1>4. turn.id # 0
    BY <1>1, <1>3 DEF Driven, Drives, Fits, Streaming
<1>5. q \in BOOLEAN
    OBVIOUS
<1> HIDE DEF q
<1>6. /\ t \in Turns /\ t.id = turn.id /\ t.failures = turn.failures
      /\ t.index = turn.index /\ t.calls = turn.calls
    BY <1>5, AnswerFacts, TurnsAre
<1> HIDE DEF t
<1>7. Chain(turn.id, pending \ {p})
    BY <1>1, <1>6, AnswerFacts, ToolResultChain DEF GoodTurn
<1> QED
    BY <1>1, <1>2, <1>4, <1>7, AnswerKeeps

LEMMA ToolDoneDriven ==
    ASSUME IInv, Driven, NEW p \in pending, NEW success \in BOOLEAN, ToolDone(p, success)
    PROVE  Driven'
<1> DEFINE count == IF turn.calls[turn.index].tool = Plan THEN turn.callCount
                    ELSE turn.callCount + 1
           t == [turn EXCEPT !.callCount = count]
<1>1. UNCHANGED user /\ UNCHANGED consents /\ p.kind = "tool"
    BY DEF ToolDone
<1>2. CASE /\ state # "ToolExec" \/ turn.id # p.turn \/ turn.index # p.index
           /\ pending' = pending \ {p} /\ UNCHANGED <<state, turn, reply, log, history>>
    <2>1. ~Drives(p)
        BY <1>1, <1>2 DEF Drives, Fits, Streaming
    <2> QED
        BY <1>1, <1>2, <2>1, DropKeeps
<1>3. CASE /\ state = "ToolExec" /\ turn.id = p.turn /\ turn.index = p.index
           /\ ToolResultSet(t, success, p.run, pending \ {p})
    <2>1. turn.index <= Len(turn.calls)
        BY <1>3, IInvParts
    <2>2. Effective(p)
        BY <1>1, <1>3 DEF Effective
    <2>3. turn.id # 0
        BY <1>3 DEF Driven
    <2>4. count \in Nat
        BY AnswerFacts, TurnsAre
    <2> HIDE DEF count
    <2>5. /\ t \in Turns /\ t.id = turn.id /\ t.failures = turn.failures
          /\ t.index = turn.index /\ t.calls = turn.calls
        BY <2>4, AnswerFacts, TurnsAre
    <2> HIDE DEF t
    <2>6. Chain(turn.id, pending \ {p})
        BY <1>3, <2>1, <2>5, AnswerFacts, ToolResultChain DEF GoodTurn
    <2> QED
        BY <1>1, <2>2, <2>3, <2>6, AnswerKeeps
<1> QED
    BY <1>2, <1>3 DEF ToolDone

LEMMA StepDriven ==
    IInv /\ [Next]_vars /\ (compacts <= 1 => Driven) => (compacts <= 1 => Driven)'
<1> SUFFICES ASSUME IInv, [Next]_vars, compacts <= 1 => Driven, compacts' <= 1
             PROVE  Driven'
    OBVIOUS
<1>1. CASE ManualCompact
    <2>1. compacts <= 1
        BY <1>1, IInvParts DEF ManualCompact, Outside
    <2> QED
        BY <1>1, <2>1, ManualCompactDriven
<1>2. CASE ~ManualCompact
    <2>1. compacts' = compacts
        BY <1>2 DEF Next, PreWithoutModel, Pre, Dispatch, Steer, Abort, Rollback, Provider,
                    Timer, Tool, FinishCompact, FinishStream, RetryTimer, ToolDone,
                    Receive, Permission, UserInput, user, vars
    <2>2. Driven
        BY <2>1
    <2>3. CASE UNCHANGED vars
        BY <2>2, <2>3, SameKeeps DEF vars, user
    <2>4. CASE PreWithoutModel
        BY <2>2, <2>4, PreWithoutModelDriven
    <2>5. CASE Pre
        BY <2>2, <2>5, PreDriven
    <2>6. CASE Dispatch
        BY <2>2, <2>6, DispatchDriven
    <2>7. CASE Steer
        BY <2>2, <2>7, SteerDriven
    <2>8. CASE Abort
        BY <2>2, <2>8, AbortDriven
    <2>9. CASE Rollback
        BY <2>2, <2>9, RollbackDriven
    <2>10. CASE Provider
        BY <2>2, <2>10, FinishCompactDriven, FinishStreamDriven DEF Provider
    <2>11. CASE Timer
        BY <2>2, <2>11, RetryTimerDriven DEF Timer
    <2>12. CASE Tool
        BY <2>2, <2>12, ToolDoneDriven DEF Tool
    <2>13. CASE \E p \in pending, what \in {"Think", "Response"} : Receive(p, what)
        BY <2>2, <2>13, ReceiveDriven
    <2>14. CASE \E p \in pending, status \in BOOLEAN : Permission(p, status)
        BY <2>2, <2>14, PermissionDriven
    <2>15. CASE \E p \in pending, answered \in BOOLEAN : UserInput(p, answered)
        BY <2>2, <2>15, UserInputDriven
    <2> QED
        BY <1>2, <2>3, <2>4, <2>5, <2>6, <2>7, <2>8, <2>9, <2>10, <2>11, <2>12, <2>13,
           <2>14, <2>15 DEF Next
<1> QED
    BY <1>1, <1>2

LEMMA DrivenOneDriver ==
    ASSUME IInv, Driven
    PROVE  OneDriver
<1> DEFINE live == {p \in pending : Effective(p)}
<1>1. CASE state = "Ready"
    <2>1. live = {}
        BY <1>1 DEF Driven, Effective, Timers, Replies, Cards
    <2> QED
        BY <1>1, <2>1 DEF OneDriver
<1>2. CASE state # "Ready"
    <2>1. PICK d \in pending : Drives(d)
        BY <1>2 DEF Driven
    <2>2. d.kind \in Replies \cup Timers \cup Cards \cup {"tool"}
        BY AnswerFacts, PendingKinds DEF GoodPending
    <2>3. d \in live
        BY <1>2, <2>1, <2>2 DEF Drives, Fits, Effective, Timers, Streaming
    <2>4. \A p \in live : p = d
        BY <2>1 DEF Drives, Quiet, Effective, Timers, Replies, Cards
    <2>5. d.kind \in Awaited
        BY <2>1 DEF Drives, Fits, Awaited, Streaming
    <2>6. live = {d} /\ d.turn = turn.id /\ (d.kind \in Replies => reply = {d})
        BY <2>1, <2>3, <2>4 DEF Drives
    <2> QED
        BY <1>2, <2>3, <2>5, <2>6 DEF OneDriver
<1> QED
    BY <1>1, <1>2

LEMMA DrivenApproval ==
    ASSUME IInv, Driven
    PROVE  ApprovalHonoured
<1> SUFFICES ASSUME NEW p \in pending, p.kind = "tool", p.turn = turn.id
             PROVE  \/ turn.calls[p.index].tool \in Approved
                    \/ [turn |-> p.turn, index |-> p.index] \in consents
    BY DEF ApprovalHonoured
<1>1. turn.id # 0
    BY DEF Driven, Fine
<1>2. state # "Ready"
    BY <1>1, IInvParts
<1>3. PICK d \in pending : Drives(d)
    BY <1>2 DEF Driven
<1>4. p = d
    BY <1>3 DEF Drives, Quiet
<1> QED
    BY <1>3, <1>4 DEF Drives

-----------------------------------------------------------------------------

(***************************************************************************)
(* What is compacted is in the summary.                                    *)
(***************************************************************************)

(* id is none, or the id of a turn on the record. *)
Recorded(id) == id = 0 \/ \E j \in 1 .. Len(log) : log[j].turn = id

(* The invariant, until a turn is taken back: the compacted turn, and the  *)
(* cut a compaction under way was given, are still on the record.          *)
Whole == /\ Recorded(compacted)
         /\ Recorded(turn.compacted)
         /\ HistoryReachesModel

(* The record and the cut after a chain entered with a turn of that cut.   *)
Adds(cut) == /\ \/ log' = log
                \/ \E entry \in Entries : log' = Append(log, entry)
             /\ \/ turn'.compacted \in {0, cut}
                \/ \E j \in 1 .. Len(log) : log[j].turn = turn'.compacted

LEMMA CompleteAdds ==
    ASSUME NEW t, t.id \in Nat, NEW status \in Status, NEW rest,
           EnterComplete(t, status, rest)
    PROVE  Adds(t.compacted)
<1>1. [turn |-> t.id, status |-> status] \in Entries
    BY DEF Entries
<1>2. NoTurn.compacted = 0
    BY DEF NoTurn
<1> QED
    BY <1>1, <1>2 DEF EnterComplete, Adds

LEMMA RequestAdds ==
    ASSUME NEW t \in Turns, NEW run, NEW rest, EnterRequest(t, run, rest)
    PROVE  Adds(t.compacted)
<1>1. PICK m : turn' = [t EXCEPT !.messages = m, !.steering = 0, !.seen = {}]
    BY DEF EnterRequest
<1>2. turn'.compacted = t.compacted
    BY <1>1, TurnsAre
<1> QED
    BY <1>2 DEF EnterRequest, Adds

LEMMA CompactAdds ==
    ASSUME NEW t \in Turns, NEW run, NEW rest, EnterCompact(t, run, rest)
    PROVE  Adds(t.compacted)
<1>1. PICK cut \in IF Uncompacted = {} THEN {0} ELSE {log[i].turn : i \in Uncompacted} :
          turn' = [t EXCEPT !.compacted = cut] /\ log' = log
    BY DEF EnterCompact
<1>2. turn'.compacted = cut
    BY <1>1, TurnsAre
<1>3. cut = 0 \/ \E j \in 1 .. Len(log) : log[j].turn = cut
    BY <1>1 DEF Uncompacted
<1> QED
    BY <1>1, <1>2, <1>3 DEF Adds

LEMMA AnsweredCut ==
    ASSUME NEW t \in Turns, NEW to
    PROVE  Answered(t, t.index, to).compacted = t.compacted
<1>1. \A m, next : [t EXCEPT !.messages = m, !.index = next, !.failedTool = {},
                             !.failures = 0].compacted = t.compacted
    BY TurnsAre
<1> QED
    BY <1>1 DEF Answered

LEMMA ToolCallAdds ==
    ASSUME NEW t, GoodTurn(t), NEW run, NEW rest, EnterToolCall(t, run, rest)
    PROVE  Adds(t.compacted)
<1> DEFINE U(n) == Answered(t, t.index, n - 1)
<1>1. PICK n \in t.index .. Len(t.calls) + 1 :
          EnterRequest(U(n), run, rest) \/ (turn' = U(n) /\ log' = log)
    BY DEF EnterToolCall
<1>2. /\ t \in Turns /\ t.failures < FailureLimit
      /\ t.index \in Nat \ {0} /\ Len(t.calls) \in Nat /\ n - 1 \in Nat
    BY TurnsAre DEF GoodTurn
<1>3. U(n) \in Turns /\ U(n).compacted = t.compacted
    BY <1>2, AnsweredGood, AnsweredCut
<1> HIDE DEF U
<1>4. CASE EnterRequest(U(n), run, rest)
    BY <1>3, <1>4, RequestAdds
<1>5. CASE turn' = U(n) /\ log' = log
    BY <1>3, <1>5 DEF Adds
<1> QED
    BY <1>1, <1>4, <1>5

LEMMA ToolResultAdds ==
    ASSUME NEW t \in Turns, t.failures < FailureLimit, t.index <= Len(t.calls),
           NEW success \in BOOLEAN, NEW run, NEW rest,
           ToolResultSet(t, success, run, rest)
    PROVE  Adds(t.compacted)
<1> DEFINE tool == t.calls[t.index].tool
           a == Answered(t, t.index, t.index)
           failed == IF success THEN {} ELSE {tool}
           count == IF success THEN 0
                    ELSE IF t.failedTool = {tool} THEN t.failures + 1 ELSE 1
           done == [a EXCEPT !.failedTool = failed, !.failures = count]
<1>1. IF done.failures >= FailureLimit \/ done.callCount >= CallLimit
      THEN EnterError(done, rest)
      ELSE EnterToolCall(done, run, rest)
    BY DEF ToolResultSet
<1>2. t.index \in Nat \ {0} /\ t.failures \in Nat /\ t.calls \in Seq(Calls)
    BY TurnsAre
<1>3. tool \in Tools
    <2>1. t.calls[t.index] \in Calls
        BY <1>2
    <2> QED
        BY <2>1 DEF Calls
<1>4. failed \in SUBSET Tools /\ count \in Nat
    BY <1>2, <1>3
<1>5. a \in Turns /\ a.compacted = t.compacted
    BY <1>2, AnsweredGood, AnsweredCut
<1> HIDE DEF tool, a, failed, count
<1>6. done \in Turns /\ done.compacted = t.compacted
    BY <1>4, <1>5, TurnsAre
<1> HIDE DEF done
<1>7. done.id \in Nat /\ done.failures \in Nat /\ done.callCount \in Nat
    BY <1>6, TurnsAre
<1>8. CASE done.failures >= FailureLimit \/ done.callCount >= CallLimit
    BY <1>1, <1>6, <1>7, <1>8, CompleteAdds DEF EnterError, Status
<1>9. CASE ~(done.failures >= FailureLimit \/ done.callCount >= CallLimit)
    <2>1. GoodTurn(done)
        BY <1>6, <1>7, <1>9, AgentAssumption DEF GoodTurn
    <2> QED
        BY <1>1, <1>6, <1>9, <2>1, ToolCallAdds
<1> QED
    BY <1>8, <1>9

(* A record that grows at its end loses nothing, and what is new follows   *)
(* the compacted turn.                                                     *)
LEMMA AddsKeep ==
    ASSUME IInv, Whole, NEW cut, Recorded(cut), Adds(cut), UNCHANGED conversation
    PROVE  Whole'
<1>1. log \in Seq(Entries) /\ compacted' = compacted /\ summary' = summary
    BY IInvParts DEF conversation
<1>2. /\ Len(log) \in Nat /\ Len(log') \in Nat /\ Len(log') \in {Len(log), Len(log) + 1}
      /\ \A j \in 1 .. Len(log) : log'[j] = log[j]
    BY <1>1 DEF Adds
<1>3. 1 .. Len(log) \subseteq 1 .. Len(log')
    BY <1>2
<1>4. Recorded(compacted)' /\ Recorded(turn.compacted)'
    BY <1>1, <1>2, <1>3 DEF Whole, Recorded, Adds
<1>5. ASSUME NEW i \in 1 .. Len(log')
      PROVE  i \in Uncompacted' \/ log'[i].turn \in summary'
    <2>1. CASE compacted = 0
        BY <1>1, <1>5, <2>1 DEF Uncompacted
    <2>2. CASE compacted # 0 /\ i \in 1 .. Len(log)
        <3>1. i \in Uncompacted => i \in Uncompacted'
            BY <1>1, <1>2, <1>3, <2>2 DEF Uncompacted
        <3> QED
            BY <1>1, <1>2, <2>2, <3>1 DEF Whole, HistoryReachesModel
    <2>3. CASE compacted # 0 /\ i \notin 1 .. Len(log)
        <3>1. PICK j \in 1 .. Len(log) : log[j].turn = compacted
            BY <2>3 DEF Whole, Recorded
        <3>2. j \in 1 .. i - 1
            BY <1>2, <1>5, <2>3, <3>1
        <3> QED
            BY <1>1, <1>2, <1>5, <2>3, <3>1, <3>2 DEF Uncompacted
    <2> QED
        BY <2>1, <2>2, <2>3
<1> QED
    BY <1>4, <1>5 DEF Whole, HistoryReachesModel

(* The summary takes in what was not compacted, up to the cut. *)
LEMMA SummarisedWhole ==
    ASSUME IInv, Whole, NEW r \in pending, Summarised(r)
    PROVE  Whole'
<1> DEFINE cut == turn.compacted
           t == [turn EXCEPT !.compacted = 0]
           merged == {j \in Uncompacted : \E k \in j .. Len(log) : log[k].turn = cut}
<1>1. /\ compacted' = cut
      /\ summary' = IF cut = 0 THEN {}
                    ELSE summary \cup {log[i].turn : i \in merged}
    BY DEF Summarised
<1>2. t \in Turns /\ t.compacted = 0
    BY AnswerFacts, TurnsAre
<1>3. log' = log /\ turn'.compacted = 0
    <2>1. CASE turn.id = 0
        <3>1. turn' = t /\ log' = log
            BY <2>1 DEF Summarised
        <3> QED
            BY <1>2, <3>1
    <2>2. CASE turn.id # 0
        <3>1. EnterRequest(t, r.run, pending \ {r})
            BY <2>2 DEF Summarised
        <3> HIDE DEF t
        <3>2. PICK m : turn' = [t EXCEPT !.messages = m, !.steering = 0, !.seen = {}]
            BY <3>1 DEF EnterRequest
        <3>3. turn'.compacted = t.compacted
            BY <1>2, <3>2, TurnsAre
        <3> QED
            BY <1>2, <3>1, <3>3 DEF EnterRequest
    <2> QED
        BY <2>1, <2>2
<1> HIDE DEF t
<1>4. Recorded(compacted)' /\ Recorded(turn.compacted)'
    BY <1>1, <1>3 DEF Whole, Recorded
<1>5. ASSUME NEW i \in 1 .. Len(log)
      PROVE  i \in Uncompacted' \/ log[i].turn \in summary'
    <2>1. CASE cut = 0
        BY <1>1, <1>3, <2>1 DEF Uncompacted
    <2>2. CASE cut # 0 /\ i \notin Uncompacted'
        <3>1. PICK j \in 1 .. Len(log) : log[j].turn = cut
            BY <2>2 DEF Whole, Recorded
        <3>2. Len(log) \in Nat
            BY IInvParts
        <3>3. j \notin 1 .. i - 1
            BY <1>1, <1>3, <2>2, <3>1 DEF Uncompacted
        <3>4. j \in i .. Len(log)
            BY <3>1, <3>2, <3>3
        <3>5. i \in Uncompacted => i \in merged
            BY <3>1, <3>4
        <3>6. i \in Uncompacted \/ log[i].turn \in summary
            BY DEF Whole, HistoryReachesModel
        <3> QED
            BY <1>1, <2>2, <3>5, <3>6
    <2> QED
        BY <2>1, <2>2
<1>6. HistoryReachesModel'
    BY <1>3, <1>5 DEF HistoryReachesModel
<1> QED
    BY <1>4, <1>6 DEF Whole

(* Setting a retry timer, or giving up. *)
LEMMA RetryOrErrorAdds ==
    ASSUME IInv, NEW r \in pending, NEW rest, RetryOrError(r, rest)
    PROVE  Adds(turn.compacted)
<1>1. EnterError(turn, rest) => Adds(turn.compacted)
    BY AnswerFacts, CompleteAdds DEF EnterError, Status
<1> QED
    BY <1>1 DEF RetryOrError, Adds

(* Every other step adds to the record at most, and its cut is none, the   *)
(* one there was, or that of a turn on the record.                         *)
LEMMA StepAdds ==
    ASSUME IInv, [Next]_vars, ~Rollback, ~\E r \in pending : Summarised(r)
    PROVE  Adds(turn.compacted) \/ Adds(0)
<1>1. /\ turn \in Turns /\ turn.id \in Nat /\ GoodTurn(turn) /\ NewTurn \in Turns
      /\ NewTurn.compacted = 0
    <2>1. turn \in Turns /\ GoodTurn(turn) /\ created \in Nat
        BY IInvParts DEF GoodTurn, Outside
    <2>2. NewTurn.compacted = 0
        BY DEF NewTurn, NoTurn
    <2> QED
        BY <2>1, <2>2, NewTurnGood, TurnsAre DEF GoodTurn
<1>2. ASSUME turn'.compacted = turn.compacted, log' = log
      PROVE  Adds(turn.compacted)
    BY <1>2 DEF Adds
<1>3. CASE UNCHANGED vars
    BY <1>2, <1>3 DEF vars
<1>4. CASE PreWithoutModel
    BY <1>4 DEF PreWithoutModel, NoTurn, Adds
<1>5. CASE Pre \/ Dispatch
    BY <1>1, <1>5, RequestAdds, CompactAdds DEF Pre, Dispatch
<1>6. CASE ManualCompact
    BY <1>1, <1>6, CompactAdds DEF ManualCompact
<1>7. CASE Steer
    <2>1. PICK n : turn' = [turn EXCEPT !.steering = n] /\ log' = log
        BY <1>7 DEF Steer
    <2> QED
        BY <1>1, <1>2, <2>1, TurnsAre
<1>8. CASE Abort
    BY <1>1, <1>8, CompleteAdds DEF Abort, Status
<1>9. ASSUME NEW p \in pending, FinishCompact(p) \/ FinishStream(p)
      PROVE  Adds(turn.compacted)
    <2>1. EnterError(turn, pending \ {p}) => Adds(turn.compacted)
        BY <1>1, CompleteAdds DEF EnterError, Status
    <2>2. RetryOrError(p, pending \ {p}) => Adds(turn.compacted)
        BY RetryOrErrorAdds
    <2>3. FinishStop(p) => Adds(turn.compacted)
        BY <1>1, CompleteAdds, RequestAdds DEF FinishStop, Status
    <2>4. ASSUME NEW batch \in Batches, FinishCalls(p, batch)
          PROVE  Adds(turn.compacted)
        <3>1. PICK t : /\ t.compacted = turn.compacted /\ GoodTurn(t)
                       /\ EnterToolCall(t, p.run, pending \ {p})
            BY <2>4, FinishCallsEnters
        <3> QED
            BY <3>1, ToolCallAdds
    <2> QED
        BY <1>9, <2>1, <2>2, <2>3, <2>4 DEF FinishCompact, FinishStream
<1>10. CASE Timer
    <2>1. PICK p \in pending : RetryTimer(p)
        BY <1>10 DEF Timer
    <2>2. turn' = [turn EXCEPT !.seen = {}] \/ turn' = turn
        BY <2>1 DEF RetryTimer
    <2> QED
        BY <1>1, <1>2, <2>1, <2>2, TurnsAre DEF RetryTimer
<1>11. CASE Tool
    <2>1. PICK p \in pending, success \in BOOLEAN : ToolDone(p, success)
        BY <1>11 DEF Tool
    <2> DEFINE count == IF turn.calls[turn.index].tool = Plan THEN turn.callCount
                        ELSE turn.callCount + 1
               t == [turn EXCEPT !.callCount = count]
    <2>2. CASE state = "ToolExec" /\ ToolResultSet(t, success, p.run, pending \ {p})
        <3>1. turn.index <= Len(turn.calls) /\ count \in Nat
            BY <1>1, <2>2, IInvParts, TurnsAre
        <3> HIDE DEF count
        <3>2. /\ t \in Turns /\ t.compacted = turn.compacted /\ t.failures = turn.failures
              /\ t.index = turn.index /\ t.calls = turn.calls
            BY <1>1, <3>1, TurnsAre
        <3> HIDE DEF t
        <3>3. Adds(t.compacted)
            BY <1>1, <2>2, <3>1, <3>2, ToolResultAdds DEF GoodTurn
        <3> QED
            BY <3>2, <3>3
    <2> QED
        BY <1>2, <2>1, <2>2 DEF ToolDone
<1>12. ASSUME NEW p \in pending, NEW what, Receive(p, what)
       PROVE  Adds(turn.compacted)
    <2>1. PICK n : turn' = [turn EXCEPT !.seen = n] /\ log' = log
        BY <1>12 DEF Receive
    <2> QED
        BY <1>1, <1>2, <2>1, TurnsAre
<1>13. ASSUME NEW p \in pending, NEW status \in BOOLEAN, Permission(p, status)
       PROVE  Adds(turn.compacted)
    BY <1>1, <1>2, <1>13, ToolResultAdds DEF Permission, GoodTurn
<1>14. ASSUME NEW p \in pending, NEW answered \in BOOLEAN, UserInput(p, answered)
       PROVE  Adds(turn.compacted)
    <2>1. PICK q \in BOOLEAN :
             ToolResultSet([turn EXCEPT !.questions = q], TRUE, p.run, pending \ {p})
        BY <1>1, <1>14, TurnsAre DEF UserInput
    <2>2. PICK t : t = [turn EXCEPT !.questions = q]
        OBVIOUS
    <2>3. /\ t \in Turns /\ t.compacted = turn.compacted /\ t.failures = turn.failures
          /\ t.index = turn.index /\ t.calls = turn.calls
        BY <1>1, <2>2, TurnsAre
    <2>4. Adds(t.compacted)
        BY <1>1, <1>14, <2>1, <2>2, <2>3, ToolResultAdds DEF UserInput, GoodTurn
    <2> QED
        BY <2>3, <2>4
<1> QED
    BY <1>1, <1>3, <1>4, <1>5, <1>6, <1>7, <1>8, <1>9, <1>10, <1>11, <1>12, <1>13, <1>14
       DEF Next, Provider

LEMMA StepWhole ==
    IInv /\ [Next]_vars /\ (rollbacks = 0 => Whole) => (rollbacks = 0 => Whole)'
<1> SUFFICES ASSUME IInv, [Next]_vars, rollbacks = 0 => Whole, rollbacks' = 0
             PROVE  Whole'
    OBVIOUS
<1>1. ~Rollback
    BY IInvParts DEF Rollback, Outside
<1>2. rollbacks' = rollbacks
    BY <1>1 DEF Next, PreWithoutModel, Pre, Dispatch, ManualCompact, Steer, Abort, Provider,
                Timer, Tool, FinishCompact, FinishStream, RetryTimer, ToolDone,
                Receive, Permission, UserInput, user, vars
<1>3. Whole
    BY <1>2
<1>4. ASSUME NEW r \in pending, Summarised(r)
      PROVE  Whole'
    BY <1>3, <1>4, SummarisedWhole
<1>5. CASE ~\E r \in pending : Summarised(r)
    <2>1. UNCHANGED conversation
        BY <1>5, <1>1 DEF Next, PreWithoutModel, Pre, Dispatch, ManualCompact, Steer, Abort,
                Provider, Timer, Tool, FinishCompact, FinishStream, RetryTimer, ToolDone,
                Receive, Permission, UserInput, vars
    <2>2. Recorded(turn.compacted) /\ Recorded(0)
        BY <1>3 DEF Whole, Recorded
    <2> QED
        BY <1>1, <1>3, <1>5, <2>1, <2>2, StepAdds, AddsKeep
<1> QED
    BY <1>4, <1>5

LEMMA InitiallyWhole == Init => (rollbacks = 0 => Whole)
BY DEF Init, Whole, Recorded, NoTurn, HistoryReachesModel

-----------------------------------------------------------------------------

LEMMA SubSeqTop ==
    ASSUME NEW S, NEW s \in Seq(S), NEW top \in Nat, top <= Len(s)
    PROVE  /\ Len(SubSeq(s, 1, top)) = top
           /\ \A i \in 1 .. top : SubSeq(s, 1, top)[i] = s[i]
<1>1. \A i \in 1 .. top : s[i] \in S
    OBVIOUS
<1>2. /\ Len(SubSeq(s, 1, top)) = IF 1 <= top THEN top - 1 + 1 ELSE 0
      /\ \A i \in 1 .. top - 1 + 1 : SubSeq(s, 1, top)[i] = s[1 + i - 1]
    BY <1>1, SubSeqProperties
<1>3. ASSUME NEW i \in 1 .. top PROVE SubSeq(s, 1, top)[i] = s[i]
    <2>1. i \in 1 .. top - 1 + 1 /\ 1 + i - 1 = i
        OBVIOUS
    <2> QED
        BY <1>2, <2>1
<1> QED
    BY <1>2, <1>3

(***************************************************************************)
(* The conversation that is posted is well formed.                         *)
(***************************************************************************)

(* Each call of an assistant message has a tool message right behind it,   *)
(* and there are no others.                                                *)
Shaped(messages) ==
    /\ \A m \in 1 .. Len(messages) : messages[m].role = "assistant" =>
          /\ m + messages[m].filled <= Len(messages)
          /\ \A k \in m + 1 .. m + messages[m].filled : messages[k].role = "tool"
    /\ \A k \in 1 .. Len(messages) : messages[k].role = "tool" =>
          \E m \in 1 .. k - 1 : /\ messages[m].role = "assistant"
                                /\ k <= m + messages[m].filled

(* A tool message without its result is of a call still to be answered,    *)
(* and the result of a call goes to a tool message.                        *)
Due(messages, calls, index) ==
    /\ \A m \in 1 .. Len(messages) : messages[m].role = "tool" =>
          \/ messages[m].filled = 1
          \/ \E k \in index .. Len(calls) : calls[k].message = m
    /\ \A k \in 1 .. Len(calls) : /\ calls[k].message \in 1 .. Len(messages)
                                  /\ messages[calls[k].message].role = "tool"

Speaks(t) == Shaped(t.messages) /\ Due(t.messages, t.calls, t.index)

(* No call of the turn is left to be answered. *)
Level(t) == t.index = Len(t.calls) + 1

Calling == {"Permission", "UserInput", "ToolExec"}

(* Every tool message has its result. *)
Finished(messages) ==
    \A m \in 1 .. Len(messages) : messages[m].role = "tool" => messages[m].filled = 1

(* The messages of a turn that is over. *)
Kept(messages, status) ==
    Shaped(messages) /\ (status = "Completed" => Finished(messages))

(* What is read back from the database. *)
Archived == /\ Len(history) = IF Primary THEN Len(log) ELSE 0
            /\ \A i \in 1 .. Len(history) : Kept(history[i], log[i].status)

(* A turn is stored with its messages, or none is. *)
Stores == \/ log' = log /\ history' = history
          \/ \E id \in Nat, status \in Status, messages \in Seq(Messages) :
                /\ Kept(messages, status)
                /\ log' = Append(log, [turn |-> id, status |-> status])
                /\ history' = IF Primary THEN Append(history, messages) ELSE history

(* The stream's message is the last one, and empty. *)
Fills(p, messages) == p.kind \in {"stream", "streamTimer"} =>
    /\ p.index \in Nat \ {0} /\ p.index = Len(messages)
    /\ messages[p.index] = Message("assistant", 0)

(* The invariant, up to the second manual compaction. *)
Spoken == /\ Archived
          /\ Speaks(turn)
          /\ state \notin Calling => Level(turn)
          /\ \A p \in pending : p.turn = turn.id /\ turn.id # 0 => Fills(p, turn.messages)

(* What a chain of stateSet calls says of the turn and of its answer. *)
Tells(id, rest) == /\ Stores
                   /\ turn'.id \in {0, id}
                   /\ Speaks(turn')
                   /\ state' \notin Calling => Level(turn')
                   /\ \A p \in pending' : p \in rest \/ Fills(p, turn'.messages)

LEMMA StoresArchived ==
    ASSUME IInv, Archived, Stores
    PROVE  Archived'
<1>1. CASE log' = log /\ history' = history
    BY <1>1 DEF Archived
<1>2. ASSUME NEW id \in Nat, NEW status \in Status, NEW messages \in Seq(Messages),
             Kept(messages, status),
             log' = Append(log, [turn |-> id, status |-> status]),
             history' = IF Primary THEN Append(history, messages) ELSE history
      PROVE  Archived'
    <2> DEFINE e == [turn |-> id, status |-> status]
               M == Seq(Messages)
    <2>1. log \in Seq(Entries) /\ e \in Entries /\ e.status = status
        BY IInvParts DEF Entries
    <2>2. history \in Seq(M) /\ messages \in M
        BY IInvParts DEF Histories
    <2> HIDE DEF e, M
    <2>3. /\ Len(log) \in Nat /\ Len(log') = Len(log) + 1 /\ log'[Len(log) + 1] = e
          /\ \A i \in 1 .. Len(log) : log'[i] = log[i]
        BY <1>2, <2>1 DEF e
    <2>4. CASE Primary
        <3>1. history' = Append(history, messages) /\ Len(history) = Len(log)
            BY <1>2, <2>4 DEF Archived
        <3>2. /\ Len(history') = Len(log) + 1 /\ history'[Len(log) + 1] = messages
              /\ \A i \in 1 .. Len(log) : history'[i] = history[i]
            BY <2>2, <3>1
        <3>3. ASSUME NEW i \in 1 .. Len(history')
              PROVE  Kept(history'[i], log'[i].status)
            <4>1. CASE i = Len(log) + 1
                BY <1>2, <2>1, <2>3, <3>2, <4>1
            <4>2. CASE i # Len(log) + 1
                <5>1. i \in 1 .. Len(log)
                    BY <2>3, <3>2, <4>2
                <5> QED
                    BY <2>3, <3>1, <3>2, <5>1 DEF Archived
            <4> QED
                BY <4>1, <4>2
        <3> QED
            BY <2>3, <2>4, <3>2, <3>3 DEF Archived
    <2>5. CASE ~Primary
        <3>1. history' = history /\ Len(history) = 0
            BY <1>2, <2>5 DEF Archived
        <3> QED
            BY <2>5, <3>1 DEF Archived
    <2> QED
        BY <2>4, <2>5
<1> QED
    BY <1>1, <1>2 DEF Stores

(* A turn that ends is stored as it stands; none of its calls is left      *)
(* open when it completes.                                                 *)
LEMMA CompleteStores ==
    ASSUME NEW t \in Turns, NEW status \in Status, NEW rest, Speaks(t),
           status = "Completed" => Level(t), EnterComplete(t, status, rest)
    PROVE  Stores
<1>1. t.messages \in Seq(Messages) /\ t.calls \in Seq(Calls) /\ t.id \in Nat
    BY TurnsAre
<1>2. Kept(t.messages, status)
    <2>1. Len(t.calls) \in Nat
        BY <1>1
    <2>2. ASSUME Level(t), NEW m \in 1 .. Len(t.messages), t.messages[m].role = "tool"
          PROVE  t.messages[m].filled = 1
        BY <2>1, <2>2 DEF Speaks, Due, Level
    <2> QED
        BY <2>2 DEF Kept, Finished, Speaks
<1>3. CASE t.id = 0
    BY <1>3 DEF EnterComplete, Stores
<1>4. CASE t.id # 0
    <2>1. /\ log' = Append(log, [turn |-> t.id, status |-> status])
          /\ history' = IF Primary THEN Append(history, t.messages) ELSE history
        BY <1>4 DEF EnterComplete
    <2> QED
        BY <1>1, <1>2, <2>1 DEF Stores
<1> QED
    BY <1>3, <1>4

LEMMA AppendSpeaks ==
    ASSUME NEW f \in Seq(Messages), NEW calls \in Seq(Calls), NEW index,
           Shaped(f), Due(f, calls, index),
           NEW e \in Messages, e.role # "tool", e.role = "assistant" => e.filled = 0
    PROVE  Shaped(Append(f, e)) /\ Due(Append(f, e), calls, index)
<1> DEFINE g == Append(f, e)
<1>1. /\ Len(f) \in Nat /\ Len(g) = Len(f) + 1 /\ g[Len(f) + 1] = e
      /\ \A m \in 1 .. Len(f) : g[m] = f[m] /\ f[m] \in Messages
    OBVIOUS
<1> HIDE DEF g
<1>2. Shaped(g)
    <2>1. ASSUME NEW m \in 1 .. Len(g), g[m].role = "assistant"
          PROVE  /\ m + g[m].filled <= Len(g)
                 /\ \A k \in m + 1 .. m + g[m].filled : g[k].role = "tool"
        <3>1. CASE m = Len(f) + 1
            BY <1>1, <2>1, <3>1
        <3>2. CASE m # Len(f) + 1
            <4>1. m \in 1 .. Len(f) /\ g[m] = f[m]
                BY <1>1, <3>2
            <4>2. PICK n \in Nat : n = f[m].filled
                BY <1>1, <4>1 DEF Messages
            <4>3. /\ m + n <= Len(f)
                  /\ \A k \in m + 1 .. m + n : f[k].role = "tool"
                BY <2>1, <4>1, <4>2 DEF Shaped
            <4>4. ASSUME NEW k \in m + 1 .. m + n
                  PROVE  g[k].role = "tool"
                <5>1. f[k].role = "tool" /\ k \in 1 .. Len(f)
                    BY <1>1, <4>1, <4>3
                <5> QED
                    BY <1>1, <5>1
            <4> QED
                BY <1>1, <4>1, <4>2, <4>3, <4>4
        <3> QED
            BY <3>1, <3>2
    <2>2. ASSUME NEW k \in 1 .. Len(g), g[k].role = "tool"
          PROVE  \E m \in 1 .. k - 1 : g[m].role = "assistant" /\ k <= m + g[m].filled
        <3>1. k \in 1 .. Len(f) /\ f[k].role = "tool"
            BY <1>1, <2>2
        <3>2. PICK m \in 1 .. k - 1 : f[m].role = "assistant" /\ k <= m + f[m].filled
            BY <3>1 DEF Shaped
        <3>3. g[m] = f[m]
            BY <1>1, <3>1, <3>2
        <3> QED
            BY <3>2, <3>3
    <2> QED
        BY <2>1, <2>2 DEF Shaped
<1>3. \A m \in 1 .. Len(g) : g[m].role = "tool" => m \in 1 .. Len(f)
    BY <1>1
<1>4. ASSUME NEW m \in 1 .. Len(g), g[m].role = "tool"
      PROVE  g[m].filled = 1 \/ \E k \in index .. Len(calls) : calls[k].message = m
    <2>1. m \in 1 .. Len(f) /\ g[m] = f[m]
        BY <1>1, <1>3, <1>4
    <2> QED
        BY <1>4, <2>1 DEF Due
<1>5. ASSUME NEW k \in 1 .. Len(calls)
      PROVE  calls[k].message \in 1 .. Len(g) /\ g[calls[k].message].role = "tool"
    <2>1. calls[k].message \in 1 .. Len(f) /\ f[calls[k].message].role = "tool"
        BY DEF Due
    <2> QED
        BY <1>1, <2>1
<1>6. Due(g, calls, index)
    BY <1>4, <1>5 DEF Due
<1> QED
    BY <1>2, <1>6 DEF g

LEMMA CompleteTells ==
    ASSUME NEW t \in Turns, NEW status \in Status, NEW rest, Speaks(t),
           status = "Completed" => Level(t), EnterComplete(t, status, rest)
    PROVE  Tells(t.id, rest)
<1>1. Speaks(NoTurn) /\ Level(NoTurn) /\ NoTurn.id = 0
    BY DEF NoTurn, Speaks, Level, Shaped, Due
<1>2. Stores
    BY CompleteStores
<1> QED
    BY <1>1, <1>2 DEF EnterComplete, Tells

LEMMA RequestTells ==
    ASSUME NEW t \in Turns, Speaks(t), Level(t), NEW run \in Nat, NEW rest,
           EnterRequest(t, run, rest)
    PROVE  Tells(t.id, rest)
<1> DEFINE spoken == Message("user", t.steering)
           silent == Message("assistant", 0)
           heard == IF t.steering = 0 THEN t.messages ELSE Append(t.messages, spoken)
           asked == Append(heard, silent)
           d == [kind |-> "stream", turn |-> t.id, index |-> Len(heard) + 1,
                 retries |-> 0, run |-> run]
<1>1. /\ t.messages \in Seq(Messages) /\ t.steering \in Nat /\ t.calls \in Seq(Calls)
    BY TurnsAre
<1>2. /\ spoken \in Messages /\ spoken.role = "user"
      /\ silent \in Messages /\ silent.role = "assistant" /\ silent.filled = 0
    BY <1>1 DEF Message, Messages
<1>3. /\ turn' = [t EXCEPT !.messages = asked, !.steering = 0, !.seen = {}]
      /\ pending' = rest \cup {d} /\ d.index = Len(heard) + 1
      /\ Stores
    BY DEF EnterRequest, Post, Stores
<1> HIDE DEF d
<1>4. heard \in Seq(Messages) /\ Shaped(heard) /\ Due(heard, t.calls, t.index)
    <2> HIDE DEF spoken
    <2> QED
        BY <1>1, <1>2, AppendSpeaks DEF Speaks
<1> HIDE DEF heard
<1>5. /\ Shaped(asked) /\ Due(asked, t.calls, t.index)
      /\ Len(asked) = Len(heard) + 1 /\ asked[Len(heard) + 1] = Message("assistant", 0)
      /\ Len(heard) \in Nat
    <2>1. Shaped(asked) /\ Due(asked, t.calls, t.index)
        <3> HIDE DEF silent
        <3> QED
            BY <1>1, <1>2, <1>4, AppendSpeaks
    <2> QED
        BY <1>2, <1>4, <2>1
<1> HIDE DEF asked
<1>6. /\ turn'.messages = asked /\ turn'.calls = t.calls /\ turn'.index = t.index
      /\ turn'.id = t.id
    BY <1>3, TurnsAre
<1>7. Speaks(turn') /\ Level(turn')
    BY <1>5, <1>6 DEF Speaks, Level
<1>8. Fills(d, turn'.messages)
    BY <1>3, <1>5, <1>6 DEF Fills
<1> QED
    BY <1>3, <1>6, <1>7, <1>8 DEF Tells

LEMMA CompactTells ==
    ASSUME NEW t \in Turns, Speaks(t), Level(t), NEW run, NEW rest,
           EnterCompact(t, run, rest)
    PROVE  Tells(t.id, rest)
<1> DEFINE d == [kind |-> "compact", turn |-> t.id, index |-> 0,
                 retries |-> 0, run |-> run]
<1>1. PICK cut : /\ turn' = [t EXCEPT !.compacted = cut] /\ pending' = rest \cup {d}
                 /\ log' = log /\ history' = history
    BY DEF EnterCompact, Post
<1>2. d.kind = "compact"
    OBVIOUS
<1> HIDE DEF d
<1>3. /\ turn'.messages = t.messages /\ turn'.calls = t.calls /\ turn'.index = t.index
      /\ turn'.id = t.id
    BY <1>1, TurnsAre
<1> QED
    BY <1>1, <1>2, <1>3 DEF Tells, Speaks, Level, Fills, Stores

(* Results that are filled in are no longer due. *)
LEMMA AnsweredSpeaks ==
    ASSUME NEW t \in Turns, Speaks(t), NEW to \in Nat, to <= Len(t.calls)
    PROVE  Speaks(Answered(t, t.index, to))
<1> DEFINE f == t.messages
           g == Filled(t, t.index, to)
           next == to + 1
           u == [t EXCEPT !.messages = g, !.index = next,
                          !.failedTool = {}, !.failures = 0]
<1>1. CASE to < t.index
    BY <1>1 DEF Answered
<1>2. CASE ~(to < t.index)
    <2>1. Answered(t, t.index, to) = u
        BY <1>2 DEF Answered
    <2>2. u.messages = g /\ u.calls = t.calls /\ u.index = to + 1
        BY TurnsAre
    <2>3. /\ f \in Seq(Messages) /\ t.calls \in Seq(Calls) /\ t.index \in Nat \ {0}
          /\ Shaped(f) /\ Due(f, t.calls, t.index)
        BY TurnsAre DEF Speaks
    <2>4. Len(g) = Len(f) /\ Len(f) \in Nat
        BY <2>3 DEF Filled
    <2>5. ASSUME NEW m \in 1 .. Len(f)
          PROVE  /\ g[m].role = f[m].role
                 /\ f[m].role # "tool" => g[m] = f[m]
                 /\ g[m] = f[m] \/ g[m].filled = 1
                 /\ (\E k \in t.index .. to : t.calls[k].message = m) => g[m].filled = 1
        <3>1. f[m] \in Messages
            BY <2>3
        <3>2. /\ [f[m] EXCEPT !.filled = 1].role = f[m].role
              /\ [f[m] EXCEPT !.filled = 1].filled = 1
            BY <3>1 DEF Messages
        <3>3. g[m] = IF \E k \in t.index .. to : t.calls[k].message = m
                     THEN [f[m] EXCEPT !.filled = 1] ELSE f[m]
            BY DEF Filled
        <3>4. ASSUME NEW k \in t.index .. to, t.calls[k].message = m
              PROVE  f[m].role = "tool"
            BY <2>3, <3>4 DEF Due
        <3> HIDE DEF f, g
        <3> QED
            BY <3>2, <3>3, <3>4
    <2> HIDE DEF f, g, u, next
    <2>6. Shaped(g)
        <3>1. ASSUME NEW m \in 1 .. Len(g), g[m].role = "assistant"
              PROVE  /\ m + g[m].filled <= Len(g)
                     /\ \A k \in m + 1 .. m + g[m].filled : g[k].role = "tool"
            <4>1. m \in 1 .. Len(f) /\ g[m] = f[m] /\ f[m].role = "assistant"
                BY <2>4, <2>5, <3>1
            <4>2. PICK n \in Nat : n = f[m].filled
                <5>1. f[m] \in Messages
                    BY <2>3, <4>1
                <5> QED
                    BY <5>1 DEF Messages
            <4>3. /\ m + n <= Len(f)
                  /\ \A k \in m + 1 .. m + n : f[k].role = "tool"
                BY <2>3, <4>1, <4>2 DEF Shaped
            <4>4. ASSUME NEW k \in m + 1 .. m + n
                  PROVE  g[k].role = "tool"
                <5>1. k \in 1 .. Len(f) /\ f[k].role = "tool"
                    BY <2>4, <4>1, <4>3
                <5> QED
                    BY <2>5, <5>1
            <4> QED
                BY <2>4, <4>1, <4>2, <4>3, <4>4
        <3>2. ASSUME NEW k \in 1 .. Len(g), g[k].role = "tool"
              PROVE  \E m \in 1 .. k - 1 : g[m].role = "assistant" /\ k <= m + g[m].filled
            <4>1. k \in 1 .. Len(f) /\ f[k].role = "tool"
                BY <2>4, <2>5, <3>2
            <4>2. PICK m \in 1 .. k - 1 : f[m].role = "assistant" /\ k <= m + f[m].filled
                BY <2>3, <4>1 DEF Shaped
            <4>3. g[m] = f[m]
                <5>1. m \in 1 .. Len(f)
                    BY <2>4, <4>1, <4>2
                <5> QED
                    BY <2>5, <4>2, <5>1
            <4> QED
                BY <4>2, <4>3
        <3> QED
            BY <3>1, <3>2 DEF Shaped
    <2>7. ASSUME NEW m \in 1 .. Len(g), g[m].role = "tool"
          PROVE  \/ g[m].filled = 1
                 \/ \E k \in to + 1 .. Len(t.calls) : t.calls[k].message = m
        <3>1. CASE g[m].filled # 1
            <4>1. m \in 1 .. Len(f) /\ f[m].role = "tool" /\ f[m].filled # 1
                BY <2>4, <2>5, <2>7, <3>1
            <4>2. PICK k \in t.index .. Len(t.calls) : t.calls[k].message = m
                BY <2>3, <4>1 DEF Due
            <4>3. k \notin t.index .. to
                BY <2>5, <3>1, <4>1, <4>2
            <4> QED
                BY <2>3, <4>2, <4>3
        <3> QED
            BY <3>1
    <2>8. Due(g, t.calls, to + 1)
        BY <2>3, <2>4, <2>5, <2>7 DEF Due
    <2> QED
        BY <2>1, <2>2, <2>6, <2>8 DEF Speaks
<1> QED
    BY <1>1, <1>2

LEMMA ToolCallTells ==
    ASSUME NEW t, GoodTurn(t), Speaks(t), NEW run \in Nat, NEW rest,
           EnterToolCall(t, run, rest)
    PROVE  Tells(t.id, rest)
<1> DEFINE U(n) == Answered(t, t.index, n - 1)
           W(n, kind) == [kind |-> kind, turn |-> t.id, index |-> n,
                          retries |-> 0, run |-> run]
<1>1. PICK n \in t.index .. Len(t.calls) + 1 :
          \/ n > Len(t.calls) /\ EnterRequest(U(n), run, rest)
          \/ \E kind \in {"input", "tool", "permission"} :
                /\ state' \in Calling
                /\ turn' = U(n) /\ pending' = rest \cup {W(n, kind)}
                /\ log' = log /\ history' = history
    BY DEF EnterToolCall, Calling
<1>2. /\ t \in Turns /\ t.index \in Nat \ {0}
      /\ t.failures < FailureLimit /\ Len(t.calls) \in Nat
    BY TurnsAre DEF GoodTurn
<1>3. n \in Nat \ {0} /\ n - 1 \in Nat /\ t.index <= n /\ n - 1 <= Len(t.calls)
    BY <1>2
<1>4. /\ U(n) \in Turns /\ U(n).calls = t.calls /\ U(n).index = n /\ U(n).id = t.id
      /\ Speaks(U(n))
    <2>1. U(n).index = IF n - 1 < t.index THEN t.index ELSE (n - 1) + 1
        BY <1>2, <1>3, AnsweredGood
    <2>2. U(n).index = n
        BY <2>1, <1>2, <1>3
    <2> QED
        BY <1>2, <1>3, <2>2, AnsweredGood, AnsweredSpeaks
<1>5. CASE n > Len(t.calls) /\ EnterRequest(U(n), run, rest)
    <2>1. Level(U(n))
        BY <1>2, <1>4, <1>5 DEF Level
    <2> HIDE DEF U
    <2> QED
        BY <1>4, <1>5, <2>1, RequestTells
<1>6. ASSUME NEW kind \in {"input", "tool", "permission"}, state' \in Calling,
             turn' = U(n), pending' = rest \cup {W(n, kind)},
             log' = log, history' = history
      PROVE  Tells(t.id, rest)
    <2>1. W(n, kind).kind = kind
        OBVIOUS
    <2> HIDE DEF U, W
    <2> QED
        BY <1>4, <1>6, <2>1 DEF Tells, Fills, Stores
<1> HIDE DEF U, W
<1> QED
    BY <1>1, <1>5, <1>6

LEMMA ToolResultTells ==
    ASSUME NEW t \in Turns, t.failures < FailureLimit, t.index <= Len(t.calls), Speaks(t),
           NEW success \in BOOLEAN, NEW run \in Nat, NEW rest,
           ToolResultSet(t, success, run, rest)
    PROVE  Tells(t.id, rest)
<1> DEFINE tool == t.calls[t.index].tool
           a == Answered(t, t.index, t.index)
           failed == IF success THEN {} ELSE {tool}
           count == IF success THEN 0
                    ELSE IF t.failedTool = {tool} THEN t.failures + 1 ELSE 1
           done == [a EXCEPT !.failedTool = failed, !.failures = count]
<1>1. IF done.failures >= FailureLimit \/ done.callCount >= CallLimit
      THEN EnterError(done, rest)
      ELSE EnterToolCall(done, run, rest)
    BY DEF ToolResultSet
<1>2. t.index \in Nat \ {0} /\ t.failures \in Nat /\ t.calls \in Seq(Calls)
    BY TurnsAre
<1>3. tool \in Tools
    <2>1. t.calls[t.index] \in Calls
        BY <1>2
    <2> QED
        BY <2>1 DEF Calls
<1>4. failed \in SUBSET Tools /\ count \in Nat
    BY <1>2, <1>3
<1>5. a \in Turns /\ a.id = t.id /\ Speaks(a)
    BY <1>2, AnsweredGood, AnsweredSpeaks
<1> HIDE DEF tool, a, failed, count
<1>6. /\ done \in Turns /\ done.id = t.id /\ done.messages = a.messages
      /\ done.calls = a.calls /\ done.index = a.index
    BY <1>4, <1>5, TurnsAre
<1> HIDE DEF done
<1>7. done.id \in Nat /\ done.failures \in Nat /\ done.callCount \in Nat /\ Speaks(done)
    BY <1>5, <1>6, TurnsAre DEF Speaks
<1>8. CASE done.failures >= FailureLimit \/ done.callCount >= CallLimit
    <2>1. "Error" \in Status /\ "Error" # "Completed"
        BY DEF Status
    <2>2. EnterComplete(done, "Error", rest)
        BY <1>1, <1>8 DEF EnterError
    <2>3. Tells(done.id, rest)
        BY <1>6, <1>7, <2>1, <2>2, CompleteTells
    <2> QED
        BY <1>6, <2>3
<1>9. CASE ~(done.failures >= FailureLimit \/ done.callCount >= CallLimit)
    <2>1. GoodTurn(done)
        BY <1>6, <1>7, <1>9, AgentAssumption DEF GoodTurn
    <2> QED
        BY <1>1, <1>6, <1>7, <1>9, <2>1, ToolCallTells
<1> QED
    BY <1>8, <1>9

(* The calls of an answer, appended behind the message that makes them. *)
LEMMA CallsSpeak ==
    ASSUME NEW f \in Seq(Messages), NEW calls \in Seq(Calls), NEW batch \in Seq(Tools),
           Shaped(f), Due(f, calls, Len(calls) + 1),
           Len(f) # 0, f[Len(f)] = Message("assistant", 0)
    PROVE  LET g == [f EXCEPT ![Len(f)].filled = Len(batch)]
                    \o [k \in 1 .. Len(batch) |-> Message("tool", 0)]
               more == calls \o [k \in 1 .. Len(batch) |->
                                   [tool |-> batch[k], message |-> Len(f) + k]]
           IN Shaped(g) /\ Due(g, more, Len(calls) + 1)
<1> DEFINE old == Len(f)
           n == Len(batch)
           asked == [f EXCEPT ![old].filled = n]
           results == [k \in 1 .. n |-> Message("tool", 0)]
           made == [k \in 1 .. n |-> [tool |-> batch[k], message |-> old + k]]
           g == asked \o results
           more == calls \o made
<1>1. old \in Nat \ {0} /\ n \in Nat /\ asked \in Seq(Messages) /\ Len(asked) = old
    <2>1. old \in Nat \ {0} /\ n \in Nat
        OBVIOUS
    <2>2. asked \in Seq(Messages)
        <3> HIDE DEF n
        <3> QED
            BY <2>1, MessagesWith
    <2>3. DOMAIN asked = DOMAIN f
        OBVIOUS
    <2>4. DOMAIN f = 1 .. Len(f) /\ DOMAIN asked = 1 .. Len(asked) /\ Len(asked) \in Nat
        <3> HIDE DEF asked
        <3> QED
            BY <2>2
    <2> HIDE DEF asked
    <2> QED
        BY <2>1, <2>2, <2>3, <2>4
<1>2. results \in Seq(Messages) /\ Len(results) = n
    BY <1>1, MessageType, IsASeq
<1>3. made \in Seq(Calls) /\ Len(made) = n
    <2>1. \A k \in 1 .. n : [tool |-> batch[k], message |-> old + k] \in Calls
        BY <1>1 DEF Calls
    <2> QED
        BY <1>1, <2>1, IsASeq
<1>4. /\ Len(g) = old + n
      /\ \A m \in 1 .. old : g[m] = asked[m]
      /\ \A m \in old + 1 .. old + n : g[m] = Message("tool", 0)
    <2>1. \A m \in old + 1 .. old + n : m - old \in 1 .. n /\ g[m] = results[m - old]
        <3> HIDE DEF asked, results, old, n
        <3> QED
            BY <1>1, <1>2
    <2>2. Len(g) = old + n
        <3> HIDE DEF asked, results, old, n
        <3> QED
            BY <1>1, <1>2, ConcatProperties
    <2>3. \A m \in 1 .. old : g[m] = asked[m]
        <3> HIDE DEF asked, results, old, n
        <3> QED
            BY <1>1, <1>2, ConcatProperties
    <2> QED
        BY <2>1, <2>2, <2>3
<1>5. /\ \A m \in 1 .. old - 1 : g[m] = f[m]
      /\ g[old].role = "assistant" /\ g[old].filled = n
    <2>1. \A m \in 1 .. old - 1 : asked[m] = f[m]
        BY <1>1
    <2>2. asked[old].role = "assistant" /\ asked[old].filled = n
        BY <1>1 DEF Message
    <2> HIDE DEF asked, g
    <2> QED
        BY <1>1, <1>4, <2>1, <2>2
<1>6. /\ Len(more) = Len(calls) + n /\ Len(calls) \in Nat
      /\ \A k \in 1 .. Len(calls) : more[k] = calls[k]
      /\ \A k \in 1 .. n : more[Len(calls) + k].message = old + k
    <2>1. Len(more) = Len(calls) + n /\ Len(calls) \in Nat
        <3> HIDE DEF made, old, n
        <3>1. Len(more) = Len(calls) + Len(made)
            BY <1>3, ConcatProperties
        <3> QED
            BY <1>3, <3>1
    <2>2. \A k \in 1 .. Len(calls) : more[k] = calls[k]
        <3> HIDE DEF made, old, n
        <3> QED
            BY <1>1, <1>3, ConcatProperties
    <2>3. ASSUME NEW k \in 1 .. n
          PROVE  more[Len(calls) + k] = made[k]
        <3> HIDE DEF made, old, n
        <3>1. /\ Len(calls) + k \in 1 .. Len(calls) + n
              /\ ~(Len(calls) + k <= Len(calls)) /\ Len(calls) + k - Len(calls) = k
            BY <1>1, <2>1
        <3> QED
            BY <1>1, <1>3, <2>1, <3>1, ConcatProperties
    <2> QED
        BY <2>1, <2>2, <2>3
<1>7. Message("tool", 0).role = "tool"
    BY DEF Message
<1>8. f[old].role = "assistant" /\ f[old].role # "tool"
    BY DEF Message
<1> HIDE DEF asked, results, made, g, more, n
<1>9. Shaped(g)
    <2>1. ASSUME NEW m \in 1 .. Len(g), g[m].role = "assistant"
          PROVE  /\ m + g[m].filled <= Len(g)
                 /\ \A k \in m + 1 .. m + g[m].filled : g[k].role = "tool"
        <3>1. m \in 1 .. old
            BY <1>1, <1>4, <1>7, <2>1
        <3>2. CASE m = old
            <4>1. \A k \in old + 1 .. old + n : g[k].role = "tool"
                BY <1>4, <1>7
            <4> QED
                BY <1>1, <1>4, <1>5, <3>2, <4>1
        <3>3. CASE m # old
            <4>1. m \in 1 .. old - 1 /\ g[m] = f[m] /\ f[m].role = "assistant"
                BY <1>1, <1>5, <2>1, <3>1, <3>3
            <4>2. PICK j \in Nat : j = f[m].filled
                <5>1. f[m] \in Messages
                    BY <3>1
                <5> QED
                    BY <5>1 DEF Messages
            <4>3. /\ m + j <= old
                  /\ \A k \in m + 1 .. m + j : f[k].role = "tool"
                BY <3>1, <4>1, <4>2 DEF Shaped
            <4>4. m + j < old
                BY <1>1, <1>8, <4>1, <4>3
            <4>5. ASSUME NEW k \in m + 1 .. m + j
                  PROVE  g[k].role = "tool"
                <5>1. k \in 1 .. old - 1 /\ f[k].role = "tool"
                    BY <1>1, <4>1, <4>3, <4>4
                <5> QED
                    BY <1>5, <5>1
            <4> QED
                BY <1>1, <1>4, <4>1, <4>2, <4>4, <4>5
        <3> QED
            BY <3>2, <3>3
    <2>2. ASSUME NEW k \in 1 .. Len(g), g[k].role = "tool"
          PROVE  \E m \in 1 .. k - 1 : g[m].role = "assistant" /\ k <= m + g[m].filled
        <3>1. CASE k \in 1 .. old - 1
            <4>1. f[k].role = "tool" /\ k \in 1 .. Len(f)
                BY <1>1, <1>5, <2>2, <3>1
            <4>2. PICK m \in 1 .. k - 1 : f[m].role = "assistant" /\ k <= m + f[m].filled
                BY <4>1 DEF Shaped
            <4>3. g[m] = f[m]
                <5>1. m \in 1 .. old - 1
                    BY <1>1, <3>1, <4>2
                <5> QED
                    BY <1>5, <5>1
            <4> QED
                BY <4>2, <4>3
        <3>2. CASE k \notin 1 .. old - 1
            <4>1. k # old
                BY <1>5, <2>2
            <4>2. old \in 1 .. k - 1 /\ k <= old + n
                BY <1>1, <1>4, <2>2, <3>2, <4>1
            <4> QED
                BY <1>5, <4>2
        <3> QED
            BY <3>1, <3>2
    <2> QED
        BY <2>1, <2>2 DEF Shaped
<1>10. ASSUME NEW m \in 1 .. Len(g), g[m].role = "tool"
       PROVE  \/ g[m].filled = 1
              \/ \E k \in Len(calls) + 1 .. Len(more) : more[k].message = m
    <2>1. CASE m \in 1 .. old - 1
        <3>1. g[m] = f[m] /\ m \in 1 .. Len(f)
            BY <1>1, <1>5, <2>1
        <3>2. f[m].filled = 1 \/ \E k \in Len(calls) + 1 .. Len(calls) : calls[k].message = m
            BY <1>10, <3>1 DEF Due
        <3> QED
            BY <1>6, <3>1, <3>2
    <2>2. CASE m \notin 1 .. old - 1
        <3>1. m # old
            BY <1>5, <1>10
        <3>2. m - old \in 1 .. n
            BY <1>1, <1>4, <2>2, <3>1
        <3>3. PICK k \in 1 .. n : k = m - old
            BY <3>2
        <3>4. more[Len(calls) + k].message = old + k
            BY <1>6
        <3>5. old + k = m /\ Len(calls) + k \in Len(calls) + 1 .. Len(more)
            BY <1>1, <1>6, <3>3
        <3> QED
            BY <3>4, <3>5
    <2> QED
        BY <2>1, <2>2
<1>11. ASSUME NEW k \in 1 .. Len(more)
       PROVE  more[k].message \in 1 .. Len(g) /\ g[more[k].message].role = "tool"
    <2>1. CASE k \in 1 .. Len(calls)
        <3>1. calls[k].message \in 1 .. old /\ f[calls[k].message].role = "tool"
            BY <2>1 DEF Due
        <3>2. calls[k].message \in 1 .. old - 1
            BY <1>1, <1>8, <3>1
        <3>3. more[k] = calls[k]
            BY <1>6, <2>1
        <3>4. calls[k].message \in 1 .. Len(g)
            BY <1>1, <1>4, <3>1
        <3>5. g[calls[k].message].role = "tool"
            BY <1>5, <3>1, <3>2
        <3> QED
            BY <3>3, <3>4, <3>5
    <2>2. CASE k \notin 1 .. Len(calls)
        <3>1. PICK j \in 1 .. n : k = Len(calls) + j
            <4>1. k - Len(calls) \in 1 .. n /\ k = Len(calls) + (k - Len(calls))
                BY <1>1, <1>6, <2>2
            <4> QED
                BY <4>1
        <3>2. more[k].message = old + j
            BY <1>6, <3>1
        <3>3. old + j \in old + 1 .. old + n /\ old + j \in 1 .. Len(g)
            BY <1>1, <1>4
        <3> QED
            BY <1>4, <1>7, <3>2, <3>3
    <2> QED
        BY <2>1, <2>2
<1>12. Due(g, more, Len(calls) + 1)
    BY <1>10, <1>11 DEF Due
<1> QED
    BY <1>9, <1>12 DEF g, more, asked, results, made, old, n

-----------------------------------------------------------------------------

LEMMA TellsKeep ==
    ASSUME IInv, Spoken, NEW id, NEW rest, Tells(id, rest), id # 0 => Quiet(rest, id)
    PROVE  Spoken'
<1>1. ASSUME NEW p \in pending', p.turn = turn'.id, turn'.id # 0
      PROVE  Fills(p, turn'.messages)
    <2>1. turn'.id = id
        BY <1>1 DEF Tells
    <2>2. p \in rest => p.kind \in Timers \cup {"tool"} /\ p.turn # id
        BY <1>1, <2>1 DEF Quiet
    <2> QED
        BY <1>1, <2>1, <2>2 DEF Tells
<1>2. Archived'
    BY StoresArchived DEF Tells, Spoken
<1> QED
    BY <1>1, <1>2 DEF Tells, Spoken

LEMMA AnswerSpoken ==
    ASSUME IInv, Driven, Spoken, NEW p \in pending, Effective(p),
           Tells(turn.id, pending \ {p})
    PROVE  Spoken'
<1>1. Drives(p)
    BY EffectiveDrives
<1> QED
    BY <1>1, TellsKeep DEF Drives

LEMMA IdleSpoken ==
    ASSUME IInv, Spoken, turn' = NoTurn, Stores
    PROVE  Spoken'
<1>1. Speaks(NoTurn) /\ Level(NoTurn) /\ NoTurn.id = 0
    BY DEF NoTurn, Speaks, Level, Shaped, Due
<1>2. Archived'
    BY StoresArchived DEF Spoken
<1> QED
    BY <1>1, <1>2 DEF Spoken

LEMMA CompleteSpoken ==
    ASSUME IInv, Spoken, NEW status \in Status, NEW rest,
           status = "Completed" => Level(turn), EnterComplete(turn, status, rest)
    PROVE  Spoken'
<1>1. turn \in Turns
    BY IInvParts DEF GoodTurn
<1>2. Stores
    BY <1>1, CompleteStores DEF Spoken
<1> QED
    BY <1>2, IdleSpoken DEF EnterComplete

LEMMA ErrorSpoken ==
    ASSUME IInv, Spoken, NEW rest, EnterError(turn, rest)
    PROVE  Spoken'
BY CompleteSpoken DEF EnterError, Status

(* Steps that leave the messages and the calls of the turn alone. *)
LEMMA SameSpoken ==
    ASSUME Spoken, turn'.id = turn.id, turn'.messages = turn.messages,
           turn'.calls = turn.calls, turn'.index = turn.index,
           state \in Calling => state' \in Calling, log' = log, history' = history,
           \A p \in pending' \ pending :
               p.turn = turn.id /\ turn.id # 0 => Fills(p, turn.messages)
    PROVE  Spoken'
<1>1. Speaks(turn') /\ (Level(turn) => Level(turn'))
    BY DEF Spoken, Speaks, Level
<1>2. Archived'
    BY DEF Archived, Spoken
<1> QED
    BY <1>1, <1>2 DEF Spoken

(* The messages of the last turn go with it. *)
LEMMA RollbackSpoken ==
    ASSUME IInv, Spoken, Rollback
    PROVE  Spoken'
<1> DEFINE M == Seq(Messages)
<1>1. /\ log \in Seq(Entries) /\ log # << >> /\ Primary
      /\ log' = SubSeq(log, 1, Len(log) - 1)
      /\ history' = SubSeq(history, 1, Len(history) - 1)
    BY IInvParts DEF Rollback
<1>2. history \in Seq(M) /\ Len(history) = Len(log)
    BY <1>1, IInvParts DEF Histories, Spoken, Archived
<1> HIDE DEF M
<1>3. PICK top \in Nat : top = Len(log) - 1
    <2>1. Len(log) \in Nat /\ Len(log) # 0
        BY <1>1
    <2> QED
        BY <2>1
<1>4. /\ Len(log') = top /\ Len(history') = top
      /\ \A i \in 1 .. top : log'[i] = log[i] /\ history'[i] = history[i]
    <2>1. log' = SubSeq(log, 1, top) /\ history' = SubSeq(history, 1, top)
        BY <1>1, <1>2, <1>3
    <2>2. top <= Len(log) /\ top <= Len(history)
        BY <1>1, <1>2, <1>3
    <2>3. Len(log') = top /\ \A i \in 1 .. top : log'[i] = log[i]
        BY <1>1, <2>1, <2>2, SubSeqTop
    <2>4. Len(history') = top /\ \A i \in 1 .. top : history'[i] = history[i]
        BY <1>2, <2>1, <2>2, SubSeqTop
    <2> QED
        BY <2>3, <2>4
<1>5. ASSUME NEW i \in 1 .. top
      PROVE  Kept(history'[i], log'[i].status)
    <2>1. i \in 1 .. Len(history)
        BY <1>1, <1>2, <1>3
    <2> QED
        BY <1>4, <2>1 DEF Spoken, Archived
<1>6. Archived'
    BY <1>1, <1>4, <1>5 DEF Archived
<1> QED
    BY <1>6 DEF Rollback, Spoken

LEMMA NewTurnSpeaks == Speaks(NewTurn) /\ Level(NewTurn)
<1>1. /\ NewTurn.messages = <<Message("user", 1)>>
      /\ NewTurn.calls = << >> /\ NewTurn.index = 1
    BY DEF NewTurn, NoTurn
<1>2. Message("user", 1).role = "user"
    BY DEF Message
<1> QED
    BY <1>1, <1>2 DEF Speaks, Level, Shaped, Due

LEMMA BeginSpoken ==
    ASSUME IInv, Driven, Spoken, Pre \/ Dispatch
    PROVE  Spoken'
<1>1. /\ created \in Nat /\ compacts \in Nat /\ Run + 1 \in Nat
      /\ NewTurn \in Turns /\ NewTurn.id = created + 1
    BY IInvParts, NewTurnGood DEF Outside, Run, GoodTurn
<1>2. Tells(created + 1, pending)
    BY <1>1, NewTurnSpeaks, RequestTells, CompactTells DEF Pre, Dispatch
<1>3. state = "Ready"
    BY IInvParts DEF Driven, Pre, Dispatch
<1>4. Quiet(pending, created + 1)
    BY <1>1, <1>3, AnswerFacts DEF Driven, Quiet, Fine
<1> QED
    BY <1>2, <1>4, TellsKeep

LEMMA ManualCompactSpoken ==
    ASSUME IInv, Spoken, ManualCompact
    PROVE  Spoken'
<1>1. /\ created \in Nat /\ compacts \in Nat /\ Run + 1 \in Nat
      /\ turn \in Turns /\ turn.id = 0 /\ state = "Ready"
    BY IInvParts DEF Outside, Run, GoodTurn, ManualCompact
<1>2. Speaks(turn) /\ Level(turn)
    BY <1>1 DEF Spoken, Calling
<1>3. Tells(0, pending)
    BY <1>1, <1>2, CompactTells DEF ManualCompact
<1> QED
    BY <1>3, TellsKeep

LEMMA SteerSpoken ==
    ASSUME IInv, Spoken, Steer
    PROVE  Spoken'
<1>1. PICK n : turn' = [turn EXCEPT !.steering = n]
    BY DEF Steer
<1>2. /\ turn'.id = turn.id /\ turn'.messages = turn.messages
      /\ turn'.calls = turn.calls /\ turn'.index = turn.index
    BY <1>1, IInvParts, TurnsAre DEF GoodTurn
<1> QED
    BY <1>2, SameSpoken DEF Steer

LEMMA RetryOrErrorSpoken ==
    ASSUME IInv, Driven, Spoken, NEW r \in pending, r.kind \in Replies,
           RetryOrError(r, pending \ {r})
    PROVE  Spoken'
<1>1. CASE EnterError(turn, pending \ {r})
    BY <1>1, ErrorSpoken
<1>2. CASE ~EnterError(turn, pending \ {r})
    <2> DEFINE kind == TimerOf[r.kind]
               i == turn.id
    <2>1. PICK timer : timer = [r EXCEPT !.kind = kind, !.turn = i]
        OBVIOUS
    <2>2. /\ pending' = (pending \ {r}) \cup {timer} /\ state' = state /\ turn' = turn
          /\ log' = log /\ history' = history
        BY <1>2, <2>1 DEF RetryOrError
    <2>3. r \in Pending
        BY AnswerFacts DEF GoodPending
    <2>4. kind \in {"stream", "streamTimer"} => r.kind = "stream"
        BY DEF TimerOf, Replies
    <2> HIDE DEF kind, i
    <2>5. timer.kind = kind /\ timer.index = r.index
        BY <2>1, <2>3 DEF Pending
    <2>6. r.turn = turn.id
        <3>1. Effective(r)
            BY DEF Effective
        <3> QED
            BY <3>1, EffectiveDrives DEF Drives
    <2>7. turn.id # 0 => Fills(timer, turn.messages)
        BY <2>4, <2>5, <2>6 DEF Spoken, Fills
    <2> QED
        BY <2>2, <2>7, SameSpoken
<1> QED
    BY <1>1, <1>2

LEMMA FinishCompactSpoken ==
    ASSUME IInv, Driven, Spoken, NEW r \in pending, FinishCompact(r)
    PROVE  Spoken'
<1>1. r.kind \in Replies /\ r.kind = "compact" /\ r.run \in Nat
    BY AnswerFacts DEF FinishCompact, Replies
<1>2. Effective(r)
    BY <1>1 DEF Effective
<1>3. state = "Compact"
    BY <1>1, <1>2, EffectiveDrives DEF Drives, Fits
<1>4. CASE Summarised(r)
    <2> DEFINE t == [turn EXCEPT !.compacted = 0]
    <2>1. /\ t \in Turns /\ t.id = turn.id /\ t.messages = turn.messages
          /\ t.calls = turn.calls /\ t.index = turn.index
        BY AnswerFacts, TurnsAre
    <2>2. CASE turn.id = 0
        <3>1. /\ turn' = t /\ pending' = pending \ {r}
              /\ log' = log /\ history' = history
            BY <1>4, <2>2 DEF Summarised
        <3> HIDE DEF t
        <3> QED
            BY <1>3, <2>1, <3>1, SameSpoken DEF Calling
    <2>3. CASE turn.id # 0
        <3>1. EnterRequest(t, r.run, pending \ {r})
            BY <1>4, <2>3 DEF Summarised
        <3> HIDE DEF t
        <3>2. Speaks(t) /\ Level(t)
            BY <1>3, <2>1 DEF Spoken, Calling, Speaks, Level
        <3>3. Tells(turn.id, pending \ {r})
            BY <1>1, <2>1, <3>1, <3>2, RequestTells
        <3> QED
            BY <1>2, <3>3, AnswerSpoken
    <2> QED
        BY <2>2, <2>3
<1>5. EnterError(turn, pending \ {r}) => Spoken'
    BY ErrorSpoken
<1>6. RetryOrError(r, pending \ {r}) => Spoken'
    BY <1>1, RetryOrErrorSpoken
<1> QED
    BY <1>4, <1>5, <1>6 DEF FinishCompact

LEMMA ReceiveSpoken ==
    ASSUME IInv, Driven, Spoken, NEW r \in pending, NEW what \in {"Think", "Response"},
           Receive(r, what)
    PROVE  Spoken'
<1>1. PICK n : /\ turn' = [turn EXCEPT !.seen = n] /\ pending' = pending
               /\ log' = log /\ history' = history
    BY DEF Receive
<1>2. /\ turn'.id = turn.id /\ turn'.messages = turn.messages
      /\ turn'.calls = turn.calls /\ turn'.index = turn.index
    BY <1>1, AnswerFacts, TurnsAre
<1>3. r.kind = "stream"
    BY DEF Receive
<1>4. Drives(r)
    BY <1>3, EffectiveDrives DEF Effective, Replies
<1>5. state \notin Calling
    BY <1>3, <1>4 DEF Drives, Fits, Streaming, Calling
<1> QED
    BY <1>1, <1>2, <1>5, SameSpoken

LEMMA FinishStreamSpoken ==
    ASSUME IInv, Driven, Spoken, NEW r \in pending, FinishStream(r)
    PROVE  Spoken'
<1>1. r.kind \in Replies /\ r.kind = "stream" /\ r.run \in Nat
    BY AnswerFacts DEF FinishStream, Replies
<1>2. Effective(r)
    BY <1>1 DEF Effective
<1>3. state \in Streaming /\ r.turn = turn.id /\ turn.id # 0
    BY <1>1, <1>2, EffectiveDrives DEF Driven, Drives, Fits, Streaming
<1>4. Speaks(turn) /\ Level(turn) /\ Fills(r, turn.messages)
    BY <1>3 DEF Spoken, Streaming, Calling
<1>5. ASSUME NEW batch \in Batches, FinishCalls(r, batch)
      PROVE  Tells(turn.id, pending \ {r})
    <2> DEFINE old == Len(turn.messages)
               messages == [turn.messages EXCEPT ![old].filled = Len(batch)]
                           \o [k \in 1 .. Len(batch) |-> Message("tool", 0)]
               calls == turn.calls \o [k \in 1 .. Len(batch) |->
                                         [tool |-> batch[k], message |-> old + k]]
    <2>1. /\ turn \in Turns /\ turn.messages \in Seq(Messages)
          /\ turn.calls \in Seq(Calls) /\ batch \in Seq(Tools)
        BY AnswerFacts, TurnsAre, AgentAssumption
    <2>2. /\ Shaped(turn.messages) /\ Due(turn.messages, turn.calls, Len(turn.calls) + 1)
          /\ old # 0 /\ turn.messages[old] = Message("assistant", 0) /\ r.index = old
        BY <1>1, <1>4 DEF Speaks, Level, Fills
    <2>3. Shaped(messages) /\ Due(messages, calls, Len(turn.calls) + 1)
        BY <2>1, <2>2, CallsSpeak
    <2>4. PICK t : /\ t.id = turn.id /\ GoodTurn(t) /\ t.messages = messages
                   /\ t.calls = calls /\ t.index = turn.index
                   /\ EnterToolCall(t, r.run, pending \ {r})
        BY <1>5, <2>2, FinishCallsEnters
    <2> HIDE DEF messages, calls
    <2>5. Speaks(t)
        BY <1>4, <2>3, <2>4 DEF Speaks, Level
    <2> QED
        BY <1>1, <2>4, <2>5, ToolCallTells
<1>6. ASSUME EnterRequest(turn, r.run, pending \ {r})
      PROVE  Tells(turn.id, pending \ {r})
    BY <1>1, <1>4, <1>6, AnswerFacts, RequestTells
<1>7. Tells(turn.id, pending \ {r}) => Spoken'
    BY <1>2, AnswerSpoken
<1>8. EnterComplete(turn, "Completed", pending \ {r}) => Spoken'
    BY <1>4, CompleteSpoken DEF Status
<1>9. EnterError(turn, pending \ {r}) => Spoken'
    BY ErrorSpoken
<1>10. RetryOrError(r, pending \ {r}) => Spoken'
    BY <1>1, RetryOrErrorSpoken
<1> QED
    BY <1>5, <1>6, <1>7, <1>8, <1>9, <1>10 DEF FinishStream, FinishStop

LEMMA RetryTimerSpoken ==
    ASSUME IInv, Spoken, NEW p \in pending, RetryTimer(p)
    PROVE  Spoken'
<1>1. /\ state' = state /\ p.kind \in Timers /\ log' = log /\ history' = history
      /\ turn' = [turn EXCEPT !.seen = {}] \/ turn' = turn
    BY DEF RetryTimer
<1>2. /\ turn'.id = turn.id /\ turn'.messages = turn.messages
      /\ turn'.calls = turn.calls /\ turn'.index = turn.index
    BY <1>1, AnswerFacts, TurnsAre
<1>3. CASE pending' = pending \ {p}
    BY <1>1, <1>2, <1>3, SameSpoken
<1>4. CASE pending' # pending \ {p}
    <2> DEFINE kind == IF p.kind = "streamTimer" THEN "stream" ELSE "compact"
               i == turn.id
    <2>1. turn.id = p.turn /\ Post(kind, turn, p.index, p.retries + 1, p.run, pending \ {p})
        BY <1>4 DEF RetryTimer
    <2>2. PICK d : d = [kind |-> kind, turn |-> i, index |-> p.index,
                        retries |-> p.retries + 1, run |-> p.run]
        OBVIOUS
    <2>3. /\ pending' = (pending \ {p}) \cup {d}
          /\ d.kind = kind /\ d.index = p.index
        BY <2>1, <2>2 DEF Post
    <2>4. turn.id # 0 => Fills(d, turn.messages)
        BY <2>1, <2>3 DEF Spoken, Fills
    <2> QED
        BY <1>1, <1>2, <2>3, <2>4, SameSpoken
<1> QED
    BY <1>3, <1>4

LEMMA PermissionSpoken ==
    ASSUME IInv, Driven, Spoken, NEW p \in pending, NEW status \in BOOLEAN,
           Permission(p, status)
    PROVE  Spoken'
<1>1. p.kind = "permission" /\ turn.index <= Len(turn.calls)
    BY DEF Permission
<1>2. Effective(p)
    BY <1>1 DEF Effective, Cards
<1>3. CASE ToolResultSet(turn, TRUE, p.run, pending \ {p})
    <2>1. Tells(turn.id, pending \ {p})
        BY <1>1, <1>3, AnswerFacts, ToolResultTells DEF GoodTurn, Spoken
    <2> QED
        BY <1>2, <2>1, AnswerSpoken
<1>4. CASE ~ToolResultSet(turn, TRUE, p.run, pending \ {p})
    <2> DEFINE i == turn.id
               k == turn.index
    <2>1. PICK f : f = [p EXCEPT !.kind = "tool", !.turn = i, !.index = k]
        OBVIOUS
    <2>2. /\ state' = "ToolExec" /\ turn' = turn /\ pending' = (pending \ {p}) \cup {f}
          /\ log' = log /\ history' = history
        BY <1>4, <2>1 DEF Permission
    <2>3. p \in Pending
        BY AnswerFacts DEF GoodPending
    <2> HIDE DEF i, k
    <2>4. f.kind = "tool"
        BY <2>1, <2>3 DEF Pending
    <2> QED
        BY <2>2, <2>4, SameSpoken DEF Fills, Calling
<1> QED
    BY <1>3, <1>4

LEMMA UserInputSpoken ==
    ASSUME IInv, Driven, Spoken, NEW p \in pending, NEW answered \in BOOLEAN,
           UserInput(p, answered)
    PROVE  Spoken'
<1> DEFINE q == turn.questions /\ answered
           t == [turn EXCEPT !.questions = q]
<1>1. /\ p.kind = "input" /\ turn.index <= Len(turn.calls)
      /\ ToolResultSet(t, TRUE, p.run, pending \ {p})
    BY DEF UserInput
<1>2. Effective(p)
    BY <1>1 DEF Effective, Cards
<1>3. q \in BOOLEAN
    OBVIOUS
<1> HIDE DEF q
<1>4. /\ t \in Turns /\ t.id = turn.id /\ t.failures = turn.failures
      /\ t.index = turn.index /\ t.calls = turn.calls /\ t.messages = turn.messages
    BY <1>3, AnswerFacts, TurnsAre
<1> HIDE DEF t
<1>5. Speaks(t)
    BY <1>4 DEF Spoken, Speaks
<1>6. Tells(turn.id, pending \ {p})
    BY <1>1, <1>4, <1>5, AnswerFacts, ToolResultTells DEF GoodTurn
<1> QED
    BY <1>2, <1>6, AnswerSpoken

LEMMA ToolDoneSpoken ==
    ASSUME IInv, Driven, Spoken, NEW p \in pending, NEW success \in BOOLEAN,
           ToolDone(p, success)
    PROVE  Spoken'
<1> DEFINE count == IF turn.calls[turn.index].tool = Plan THEN turn.callCount
                    ELSE turn.callCount + 1
           t == [turn EXCEPT !.callCount = count]
<1>1. CASE pending' = pending \ {p} /\ UNCHANGED <<state, turn, log, history>>
    BY <1>1, SameSpoken
<1>2. CASE /\ state = "ToolExec" /\ turn.id = p.turn /\ turn.index = p.index
           /\ ToolResultSet(t, success, p.run, pending \ {p})
    <2>1. turn.index <= Len(turn.calls) /\ count \in Nat
        BY <1>2, IInvParts, AnswerFacts, TurnsAre
    <2>2. Effective(p)
        BY <1>2 DEF Effective, ToolDone
    <2> HIDE DEF count
    <2>3. /\ t \in Turns /\ t.id = turn.id /\ t.failures = turn.failures
          /\ t.index = turn.index /\ t.calls = turn.calls /\ t.messages = turn.messages
        BY <2>1, AnswerFacts, TurnsAre
    <2> HIDE DEF t
    <2>4. Speaks(t)
        BY <2>3 DEF Spoken, Speaks
    <2>5. Tells(turn.id, pending \ {p})
        BY <1>2, <2>1, <2>3, <2>4, AnswerFacts, ToolResultTells DEF GoodTurn
    <2> QED
        BY <2>2, <2>5, AnswerSpoken
<1> QED
    BY <1>1, <1>2 DEF ToolDone

LEMMA StepSpoken ==
    IInv /\ [Next]_vars /\ (compacts <= 1 => Driven) /\ (compacts <= 1 => Spoken)
        => (compacts <= 1 => Spoken)'
<1> SUFFICES ASSUME IInv, [Next]_vars, compacts <= 1 => Driven, compacts <= 1 => Spoken,
                    compacts' <= 1
             PROVE  Spoken'
    OBVIOUS
<1>1. compacts' = compacts \/ ManualCompact
    BY DEF Next, PreWithoutModel, Pre, Dispatch, Steer, Abort, Rollback, Provider,
           Timer, Tool, FinishCompact, FinishStream, RetryTimer, ToolDone,
           Receive, Permission, UserInput, user, vars
<1>2. compacts <= 1
    BY <1>1, IInvParts DEF ManualCompact, Outside
<1>3. Driven /\ Spoken
    BY <1>2
<1>4. CASE UNCHANGED vars
    BY <1>3, <1>4, SameSpoken DEF vars
<1>5. CASE PreWithoutModel
    BY <1>3, <1>5, IdleSpoken DEF PreWithoutModel, Stores
<1>16. CASE Abort
    BY <1>3, <1>16, CompleteSpoken DEF Abort, Status
<1>6. CASE Pre \/ Dispatch
    BY <1>3, <1>6, BeginSpoken
<1>7. CASE ManualCompact
    BY <1>3, <1>7, ManualCompactSpoken
<1>8. CASE Steer
    BY <1>3, <1>8, SteerSpoken
<1>9. CASE Rollback
    BY <1>3, <1>9, RollbackSpoken
<1>10. CASE Provider
    BY <1>3, <1>10, FinishCompactSpoken, FinishStreamSpoken DEF Provider
<1>11. CASE Timer
    BY <1>3, <1>11, RetryTimerSpoken DEF Timer
<1>12. CASE Tool
    BY <1>3, <1>12, ToolDoneSpoken DEF Tool
<1>13. CASE \E p \in pending, what \in {"Think", "Response"} : Receive(p, what)
    BY <1>3, <1>13, ReceiveSpoken
<1>14. CASE \E p \in pending, status \in BOOLEAN : Permission(p, status)
    BY <1>3, <1>14, PermissionSpoken
<1>15. CASE \E p \in pending, answered \in BOOLEAN : UserInput(p, answered)
    BY <1>3, <1>15, UserInputSpoken
<1> QED
    BY <1>4, <1>5, <1>6, <1>7, <1>8, <1>9, <1>10, <1>11, <1>12, <1>13, <1>14, <1>15,
       <1>16 DEF Next

(* The tool messages are those behind the messages that make calls. *)
LEMMA ShapedPaired ==
    ASSUME NEW f \in Seq(Messages), Shaped(f)
    PROVE  Paired(f)
<1> DEFINE Of(role) == {m \in 1 .. Len(f) : f[m].role = role}
           Behind == {m + 1 .. m + f[m].filled : m \in Of("assistant")}
<1>1. \A m \in 1 .. Len(f) : f[m].filled \in Nat
    <2>1. \A m \in 1 .. Len(f) : f[m] \in Messages
        OBVIOUS
    <2> QED
        BY <2>1 DEF Messages
<1>2. Len(f) \in Nat
    OBVIOUS
<1>3. ASSUME NEW k \in Of("tool")
      PROVE  k \in UNION Behind
    <2>1. PICK m \in 1 .. k - 1 : f[m].role = "assistant" /\ k <= m + f[m].filled
        BY DEF Shaped
    <2>2. m \in Of("assistant") /\ k \in m + 1 .. m + f[m].filled
        BY <1>1, <1>2, <2>1
    <2> QED
        BY <2>2
<1>4. ASSUME NEW m \in Of("assistant"), NEW k \in m + 1 .. m + f[m].filled
      PROVE  k \in Of("tool")
    <2>1. m \in 1 .. Len(f) /\ m + f[m].filled <= Len(f) /\ f[k].role = "tool"
        BY DEF Shaped
    <2> QED
        BY <1>1, <1>2, <2>1
<1>5. Of("tool") = UNION Behind
    BY <1>3, <1>4
<1> QED
    BY <1>5 DEF Paired

(* With no call left to be answered, every tool message has its result. *)
LEMMA SpokenWellFormed ==
    ASSUME IInv, Driven, Spoken
    PROVE  ContextWellFormed
<1> SUFFICES ASSUME NEW p \in pending, p.kind = "stream", p.turn = turn.id
             PROVE  /\ WellFormed(SubSeq(turn.messages, 1, p.index - 1))
                    /\ \A i \in Uncompacted \cap DOMAIN history :
                          /\ Paired(history[i])
                          /\ log[i].status = "Completed" => WellFormed(history[i])
    BY DEF ContextWellFormed
<1>1. Drives(p)
    BY EffectiveDrives DEF Effective, Replies
<1>2. state \in Streaming /\ turn.id # 0
    BY <1>1 DEF Drives, Fits, Streaming, Driven
<1> DEFINE f == turn.messages
           g == SubSeq(f, 1, p.index - 1)
<1>3. /\ f \in Seq(Messages) /\ turn.calls \in Seq(Calls)
      /\ Shaped(f) /\ Due(f, turn.calls, Len(turn.calls) + 1)
      /\ p.index \in Nat \ {0} /\ p.index = Len(f) /\ f[p.index] = Message("assistant", 0)
    BY <1>2, AnswerFacts, TurnsAre DEF Spoken, Speaks, Level, Fills, Streaming, Calling
<1> HIDE DEF f
<1>4. /\ Len(g) = Len(f) - 1 /\ Len(f) \in Nat /\ g \in Seq(Messages)
      /\ \A m \in 1 .. Len(g) : g[m] = f[m] /\ m \in 1 .. Len(f)
    <2>1. PICK top \in Nat : top = Len(f) - 1 /\ top = p.index - 1
        <3>1. Len(f) \in Nat /\ Len(f) - 1 \in Nat
            BY <1>3
        <3> QED
            BY <1>3, <3>1
    <2>2. g = SubSeq(f, 1, top) /\ top <= Len(f)
        BY <1>3, <2>1
    <2> HIDE DEF g
    <2>3. Len(g) = top /\ \A i \in 1 .. top : g[i] = f[i]
        BY <1>3, <2>2, SubSeqTop
    <2>4. g \in Seq(Messages)
        BY <1>3, <2>2
    <2> QED
        BY <1>3, <2>1, <2>3, <2>4
<1>5. f[Len(f)].role # "tool"
    BY <1>3 DEF Message
<1>6. ASSUME NEW m \in 1 .. Len(f), f[m].role = "tool"
      PROVE  f[m].filled = 1
    <2>1. \/ f[m].filled = 1
          \/ \E k \in Len(turn.calls) + 1 .. Len(turn.calls) : turn.calls[k].message = m
        BY <1>3, <1>6 DEF Due
    <2>2. Len(turn.calls) \in Nat
        BY <1>3
    <2> QED
        BY <2>1, <2>2
<1> HIDE DEF g
<1>7. ASSUME NEW m \in 1 .. Len(g), g[m].role = "assistant"
      PROVE  /\ m + g[m].filled <= Len(g)
             /\ \A k \in m + 1 .. m + g[m].filled : g[k].role = "tool"
    <2>1. m \in 1 .. Len(f) /\ g[m] = f[m]
        BY <1>4
    <2>2. PICK n \in Nat : n = f[m].filled
        <3>1. f[m] \in Messages
            BY <1>3, <2>1
        <3> QED
            BY <3>1 DEF Messages
    <2>3. /\ m + n <= Len(f)
          /\ \A k \in m + 1 .. m + n : f[k].role = "tool"
        BY <1>3, <1>7, <2>1, <2>2 DEF Shaped
    <2>4. m + n <= Len(g)
        BY <1>4, <1>5, <2>1, <2>3
    <2>5. ASSUME NEW k \in m + 1 .. m + n
          PROVE  g[k].role = "tool"
        <3>1. k \in 1 .. Len(g) /\ f[k].role = "tool"
            BY <1>4, <2>1, <2>3, <2>4
        <3> QED
            BY <1>4, <3>1
    <2> QED
        BY <2>1, <2>2, <2>4, <2>5
<1>8. ASSUME NEW k \in 1 .. Len(g), g[k].role = "tool"
      PROVE  \E m \in 1 .. k - 1 : g[m].role = "assistant" /\ k <= m + g[m].filled
    <2>1. k \in 1 .. Len(f) /\ f[k].role = "tool"
        BY <1>4, <1>8
    <2>2. PICK m \in 1 .. k - 1 : f[m].role = "assistant" /\ k <= m + f[m].filled
        BY <1>3, <2>1 DEF Shaped
    <2>3. g[m] = f[m]
        <3>1. m \in 1 .. Len(g)
            BY <1>4, <2>2
        <3> QED
            BY <1>4, <3>1
    <2> QED
        BY <2>2, <2>3
<1>9. WellFormed(g)
    <2>1. Shaped(g)
        BY <1>7, <1>8 DEF Shaped
    <2>2. Paired(g)
        BY <1>4, <2>1, ShapedPaired
    <2> QED
        BY <1>4, <1>6, <2>2 DEF WellFormed
<1>10. ASSUME NEW i \in Uncompacted \cap DOMAIN history
       PROVE  /\ Paired(history[i])
              /\ log[i].status = "Completed" => WellFormed(history[i])
    <2> DEFINE M == Seq(Messages)
    <2>1. history \in Seq(M)
        BY IInvParts DEF Histories
    <2>2. i \in 1 .. Len(history) /\ history[i] \in M
        <3> HIDE DEF M
        <3> QED
            BY <2>1
    <2>3. Kept(history[i], log[i].status)
        BY <2>2 DEF Spoken, Archived
    <2>4. Paired(history[i])
        BY <2>2, <2>3, ShapedPaired DEF Kept
    <2> QED
        BY <2>3, <2>4 DEF Kept, Finished, WellFormed
<1> QED
    BY <1>9, <1>10 DEF f, g

LEMMA InitiallySpoken == Init => (compacts <= 1 => Spoken)
<1>1. Speaks(NoTurn) /\ Level(NoTurn)
    BY DEF NoTurn, Speaks, Level, Shaped, Due
<1> QED
    BY <1>1 DEF Init, Spoken, Archived

-----------------------------------------------------------------------------

(***************************************************************************)
(* Compaction goes forward.                                                *)
(***************************************************************************)

(* Turns are on the record in the order in which they were created.        *)
Ordered ==
    /\ \A i \in 1 .. Len(log) : /\ log[i].turn # 0 /\ log[i].turn <= created
                                /\ turn.id # 0 => log[i].turn < turn.id
    /\ \A i, j \in 1 .. Len(log) : i < j => log[i].turn < log[j].turn

(* When a compaction may begin there is a turn behind the compacted one,   *)
(* and the cut of one that is under way is behind it.                      *)
Forward ==
    /\ usage /\ turn.id = 0 => \E i \in 1 .. Len(log) : log[i].turn > compacted
    /\ state = "Compact" => turn.compacted > compacted

LEMMA LogFacts ==
    ASSUME IInv
    PROVE  /\ log \in Seq(Entries) /\ Len(log) \in Nat
           /\ \A i \in 1 .. Len(log) : log[i].turn \in Nat
           /\ created \in Nat /\ turn \in Turns /\ turn.id \in Nat /\ turn.id \in {0, created}
           /\ compacted \in Nat /\ usage \in BOOLEAN /\ turn.compacted \in Nat
<1>1. /\ log \in Seq(Entries) /\ Outside /\ turn \in Turns /\ turn.id \in {0, created}
    BY IInvParts DEF GoodTurn
<1>2. Len(log) \in Nat /\ \A i \in 1 .. Len(log) : log[i] \in Entries
    BY <1>1
<1>3. \A i \in 1 .. Len(log) : log[i].turn \in Nat
    BY <1>2 DEF Entries
<1>4. turn.id \in Nat /\ turn.compacted \in Nat
    BY <1>1, TurnsAre
<1> QED
    BY <1>1, <1>2, <1>3, <1>4 DEF Outside

LEMMA StepOrdered == IInv /\ [Next]_vars /\ Ordered => Ordered'
<1> SUFFICES ASSUME IInv, [Next]_vars, Ordered PROVE Ordered'
    OBVIOUS
<1>1. Refines
    BY StepGood DEF Good
<1>2. /\ Len(log) \in Nat /\ log \in Seq(Entries) /\ created \in Nat /\ turn.id \in {0, created}
      /\ \A i \in 1 .. Len(log) : log[i].turn \in Nat
    BY LogFacts
<1>3. CASE UNCHANGED <<turn.id, created, log>>
    BY <1>3 DEF Ordered
<1>4. CASE Turn!Begin
    <2>1. turn'.id = created + 1 /\ created' = created + 1 /\ log' = log
        BY <1>4 DEF Turn!Begin
    <2> QED
        BY <1>2, <2>1 DEF Ordered
<1>5. ASSUME NEW status \in Status, Turn!End(status)
      PROVE  Ordered'
    <2>1. PICK e : e = [turn |-> turn.id, status |-> status]
        OBVIOUS
    <2>2. /\ turn.id # 0 /\ log' = Append(log, e) /\ turn'.id = 0 /\ created' = created
          /\ e.turn = turn.id
        BY <1>5, <2>1 DEF Turn!End
    <2>3. /\ Len(log') = Len(log) + 1 /\ log'[Len(log) + 1] = e
          /\ \A i \in 1 .. Len(log) : log'[i] = log[i]
        BY <1>2, <2>2
    <2>4. ASSUME NEW i \in 1 .. Len(log')
          PROVE  /\ log'[i].turn # 0 /\ log'[i].turn <= created
                 /\ i = Len(log) + 1 => log'[i].turn = turn.id
                 /\ i # Len(log) + 1 => log'[i].turn < turn.id
        <3>1. CASE i = Len(log) + 1
            BY <1>2, <2>2, <2>3, <3>1
        <3>2. CASE i # Len(log) + 1
            <4>1. i \in 1 .. Len(log) /\ log'[i] = log[i]
                BY <1>2, <2>3, <3>2
            <4> QED
                BY <2>2, <3>2, <4>1 DEF Ordered
        <3> QED
            BY <3>1, <3>2
    <2>5. ASSUME NEW i \in 1 .. Len(log'), NEW j \in 1 .. Len(log'), i < j
          PROVE  log'[i].turn < log'[j].turn
        <3>1. i \in 1 .. Len(log) /\ i # Len(log) + 1
            BY <1>2, <2>3, <2>5
        <3>2. CASE j = Len(log) + 1
            BY <2>4, <3>1, <3>2
        <3>3. CASE j # Len(log) + 1
            <4>1. j \in 1 .. Len(log)
                BY <1>2, <2>3, <3>3
            <4> QED
                BY <2>3, <2>5, <3>1, <4>1 DEF Ordered
        <3> QED
            BY <3>2, <3>3
    <2> QED
        BY <2>2, <2>4, <2>5 DEF Ordered
<1>6. CASE Turn!TakeBack
    <2>1. /\ turn.id = 0 /\ log # << >> /\ log' = SubSeq(log, 1, Len(log) - 1)
          /\ turn'.id = turn.id /\ created' = created
        BY <1>6 DEF Turn!TakeBack
    <2>2. Len(log) # 0
        BY <1>2, <2>1
    <2>3. Len(log') = Len(log) - 1 /\ \A i \in 1 .. Len(log) - 1 : log'[i] = log[i]
        <3>1. PICK top \in Nat : top = Len(log) - 1
            <4>1. Len(log) \in Nat /\ Len(log) # 0
                BY <1>2, <2>2
            <4>2. Len(log) - 1 \in Nat
                BY <4>1
            <4> QED
                BY <4>2
        <3>2. log' = SubSeq(log, 1, top)
            BY <2>1, <3>1
        <3>3. top <= Len(log)
            BY <1>2, <3>1
        <3>4. Len(log') = top /\ \A i \in 1 .. top : log'[i] = log[i]
            BY <1>2, <3>2, <3>3, SubSeqTop
        <3> QED
            BY <3>1, <3>4
    <2>4. \A i \in 1 .. Len(log') : i \in 1 .. Len(log) /\ log'[i] = log[i]
        BY <1>2, <2>2, <2>3
    <2> QED
        BY <2>1, <2>4 DEF Ordered
<1> QED
    BY <1>1, <1>3, <1>4, <1>5, <1>6 DEF Refines, Turn!Next

(* A compaction that begins takes in a turn behind the compacted one.      *)
LEMMA CutAhead ==
    ASSUME IInv, Ordered, Recorded(compacted), NEW t \in Turns, NEW run, NEW rest,
           EnterCompact(t, run, rest),
           NEW i \in 1 .. Len(log), log[i].turn > compacted
    PROVE  turn'.compacted > compacted
<1>1. i \in Uncompacted
    <2>1. CASE compacted = 0
        BY <2>1 DEF Uncompacted
    <2>2. CASE compacted # 0
        <3>1. PICK j \in 1 .. Len(log) : log[j].turn = compacted
            BY <2>2 DEF Recorded
        <3>2. j < i
            BY <3>1, LogFacts DEF Ordered
        <3>3. j \in 1 .. i - 1
            BY <3>2, LogFacts
        <3> QED
            BY <2>2, <3>1, <3>3 DEF Uncompacted
    <2> QED
        BY <2>1, <2>2
<1>2. PICK k \in Uncompacted : turn' = [t EXCEPT !.compacted = log[k].turn]
    BY <1>1 DEF EnterCompact
<1>3. turn'.compacted = log[k].turn
    BY <1>2, TurnsAre
<1>4. k \in 1 .. Len(log)
    BY DEF Uncompacted
<1>5. log[k].turn > compacted
    <2>1. CASE compacted = 0
        BY <1>4, <2>1, LogFacts DEF Ordered
    <2>2. CASE compacted # 0
        <3>1. PICK j \in 1 .. k - 1 : log[j].turn = compacted
            BY <2>2 DEF Uncompacted
        <3>2. j \in 1 .. Len(log) /\ j < k
            BY <1>4, <3>1, LogFacts
        <3> QED
            BY <1>4, <3>1, <3>2, LogFacts DEF Ordered
    <2> QED
        BY <2>1, <2>2
<1> QED
    BY <1>3, <1>5

(* A chain comes to Compact only when it begins there. *)
LEMMA ToolsStayOut ==
    /\ \A t, run, rest : EnterToolCall(t, run, rest) => state' # "Compact"
    /\ \A t, success, run, rest : ToolResultSet(t, success, run, rest) => state' # "Compact"
<1>1. ASSUME NEW t, NEW run, NEW rest, EnterToolCall(t, run, rest)
      PROVE  state' # "Compact"
    BY <1>1 DEF EnterToolCall, EnterRequest
<1>2. ASSUME NEW t, NEW success, NEW run, NEW rest, ToolResultSet(t, success, run, rest)
      PROVE  state' # "Compact"
    <2>1. \E done : EnterError(done, rest) \/ EnterToolCall(done, run, rest)
        BY <1>2 DEF ToolResultSet
    <2> QED
        BY <1>1, <2>1 DEF EnterError, EnterComplete
<1> QED
    BY <1>1, <1>2

(* The two ways into Compact: it was the state before, or a chain begins.  *)
Waits == /\ state = "Compact" /\ turn'.compacted = turn.compacted /\ compacted' = compacted

Starts == /\ usage /\ turn.id = 0 /\ compacted' = compacted
          /\ \E t \in Turns : \E run, rest : EnterCompact(t, run, rest)

LEMMA StepCompact ==
    ASSUME IInv, [Next]_vars, state' = "Compact"
    PROVE  Waits \/ Starts
<1>1. /\ turn \in Turns /\ NewTurn \in Turns /\ (state = "Ready" => turn.id = 0)
    BY IInvParts, NewTurnGood, LogFacts DEF GoodTurn
<1>2. ASSUME state' = state, turn' = turn, compacted' = compacted
      PROVE  Waits
    BY <1>2 DEF Waits
<1>3. CASE UNCHANGED vars
    BY <1>2, <1>3 DEF vars, conversation
<1>4. CASE PreWithoutModel \/ Dispatch \/ Abort \/ Rollback
    BY <1>4 DEF PreWithoutModel, Dispatch, Abort, Rollback, EnterRequest, EnterComplete
<1>5. CASE Pre
    BY <1>1, <1>5 DEF Pre, Starts, EnterRequest, conversation
<1>6. CASE ManualCompact
    BY <1>1, <1>6 DEF ManualCompact, Starts, conversation
<1>7. CASE Steer
    <2>1. PICK n : turn' = [turn EXCEPT !.steering = n]
        BY <1>7 DEF Steer
    <2>2. turn'.compacted = turn.compacted
        BY <1>1, <2>1, TurnsAre
    <2> QED
        BY <1>7, <2>2 DEF Steer, Waits, conversation
<1>8. ASSUME NEW r \in pending, FinishCompact(r)
      PROVE  Waits
    <2>1. ~Summarised(r)
        BY DEF Summarised, EnterRequest
    <2>2. ~EnterError(turn, pending \ {r})
        BY DEF EnterError, EnterComplete
    <2> QED
        BY <1>2, <1>8, <2>1, <2>2 DEF FinishCompact, RetryOrError, EnterError, conversation
<1>9. ASSUME NEW r \in pending, FinishStream(r)
      PROVE  Waits
    <2>1. ~EnterError(turn, pending \ {r})
        BY DEF EnterError, EnterComplete
    <2>2. ~FinishStop(r)
        BY DEF FinishStop, EnterComplete, EnterRequest
    <2>3. ASSUME NEW batch \in Batches PROVE ~FinishCalls(r, batch)
        <3>1. FinishCalls(r, batch) => \E t : EnterToolCall(t, r.run, pending \ {r})
            BY DEF FinishCalls
        <3> QED
            BY <3>1, ToolsStayOut
    <2> QED
        BY <1>2, <1>9, <2>1, <2>2, <2>3 DEF FinishStream, RetryOrError, EnterError, conversation
<1>10. ASSUME NEW p \in pending, RetryTimer(p)
       PROVE  Waits
    <2>1. turn' = [turn EXCEPT !.seen = {}] \/ turn' = turn
        BY <1>10 DEF RetryTimer
    <2>2. turn'.compacted = turn.compacted
        BY <1>1, <2>1, TurnsAre
    <2> QED
        BY <1>10, <2>2 DEF RetryTimer, Waits, conversation
<1>11. ASSUME NEW p \in pending, NEW success, ToolDone(p, success)
       PROVE  Waits
    BY <1>2, <1>11, ToolsStayOut DEF ToolDone, conversation
<1>12. ASSUME NEW p \in pending, NEW what, Receive(p, what)
       PROVE  FALSE
    BY <1>12 DEF Receive
<1>13. ASSUME NEW p \in pending, NEW status, Permission(p, status) \/ UserInput(p, status)
       PROVE  FALSE
    BY <1>13, ToolsStayOut DEF Permission, UserInput
<1> QED
    BY <1>3, <1>4, <1>5, <1>6, <1>7, <1>8, <1>9, <1>10, <1>11, <1>12, <1>13
       DEF Next, Provider, Timer, Tool

(* Figures are shown after an answer to a stream, which is of a turn.      *)
LEMMA StepUsage ==
    ASSUME IInv, Driven, [Next]_vars, usage'
    PROVE  /\ usage \/ turn.id # 0
           /\ compacted' = compacted
<1>1. ASSUME NEW r \in pending, FinishStream(r)
      PROVE  turn.id # 0 /\ compacted' = compacted
    <2>1. r.kind = "stream" /\ Effective(r) /\ compacted' = compacted
        BY <1>1 DEF FinishStream, Effective, Replies, conversation
    <2> QED
        BY <2>1, EffectiveDrives DEF Driven, Drives, Fits, Streaming
<1>2. ASSUME NEW r \in pending, FinishCompact(r)
      PROVE  usage /\ compacted' = compacted
    BY <1>2 DEF FinishCompact, Summarised, conversation
<1>3. CASE UNCHANGED usage /\ UNCHANGED conversation
    BY <1>3 DEF conversation
<1> QED
    BY <1>1, <1>2, <1>3
       DEF Next, PreWithoutModel, Pre, Dispatch, ManualCompact, Steer, Abort, Rollback,
           Provider, Timer, Tool, RetryTimer, ToolDone, Receive, Permission, UserInput,
           conversation, vars

LEMMA StepForward ==
    ASSUME IInv, [Next]_vars, ~Rollback, Driven, Recorded(compacted), Ordered, Forward
    PROVE  /\ Forward'
           /\ compacted' # compacted => compacted' > compacted
<1>1. /\ Len(log) \in Nat /\ log \in Seq(Entries) /\ created \in Nat /\ turn.id \in {0, created}
      /\ compacted \in Nat /\ turn.id \in Nat /\ turn.compacted \in Nat
      /\ \A i \in 1 .. Len(log) : log[i].turn \in Nat
    BY LogFacts
<1>2. ASSUME usage', turn'.id = 0
      PROVE  \E i \in 1 .. Len(log') : log'[i].turn > compacted'
    <2>1. (usage \/ turn.id # 0) /\ compacted' = compacted
        BY <1>2, StepUsage
    <2>2. Refines
        BY StepGood DEF Good
    <2>3. ~Turn!Begin
        BY <1>1, <1>2 DEF Turn!Begin
    <2>4. CASE UNCHANGED <<turn.id, created, log>>
        BY <1>2, <2>1, <2>4 DEF Forward
    <2>5. ASSUME NEW status \in Status, Turn!End(status)
          PROVE  \E i \in 1 .. Len(log') : log'[i].turn > compacted'
        <3>1. PICK e : e = [turn |-> turn.id, status |-> status]
            OBVIOUS
        <3>2. log' = Append(log, e) /\ e.turn = turn.id /\ turn.id # 0
            BY <2>5, <3>1 DEF Turn!End
        <3>3. Len(log') = Len(log) + 1 /\ log'[Len(log) + 1] = e
            BY <1>1, <3>2
        <3>4. turn.id > compacted
            <4>1. CASE compacted = 0
                BY <1>1, <3>2, <4>1
            <4>2. CASE compacted # 0
                <5>1. PICK j \in 1 .. Len(log) : log[j].turn = compacted
                    BY <4>2 DEF Recorded
                <5> QED
                    BY <1>1, <3>2, <5>1 DEF Ordered
            <4> QED
                BY <4>1, <4>2
        <3> QED
            BY <1>1, <2>1, <3>2, <3>3, <3>4
    <2>6. ~Turn!TakeBack
        <3>1. ASSUME Turn!TakeBack
              PROVE  FALSE
            <4>1. /\ log # << >> /\ log' = SubSeq(log, 1, Len(log) - 1)
                BY <3>1 DEF Turn!TakeBack
            <4>2. Len(log) # 0
                BY <1>1, <4>1
            <4>3. Len(log) - 1 \in Nat
                BY <1>1, <4>2
            <4>4. Len(log') = Len(log) - 1
                <5>1. PICK top \in Nat : top = Len(log) - 1
                    BY <4>3
                <5>2. log \in Seq(Entries) /\ top <= Len(log)
                    BY <1>1, <5>1, LogFacts
                <5>3. Len(SubSeq(log, 1, top)) = top
                    BY <5>2, SubSeqTop
                <5> QED
                    BY <4>1, <5>1, <5>3
            <4>5. log' # log /\ \A e : log' # Append(log, e)
                BY <1>1, <4>3, <4>4
            <4>6. ~\E r \in pending : Summarised(r)
                BY <1>2 DEF Summarised
            <4>7. Adds(turn.compacted) \/ Adds(0)
                BY <4>6, StepAdds
            <4> QED
                BY <4>5, <4>7 DEF Adds
        <3> QED
            BY <3>1
    <2> QED
        BY <2>2, <2>3, <2>4, <2>5, <2>6 DEF Refines, Turn!Next
<1>3. ASSUME state' = "Compact"
      PROVE  turn'.compacted > compacted'
    <2>1. CASE Waits
        BY <2>1 DEF Waits, Forward
    <2>2. CASE Starts
        <3>1. PICK i \in 1 .. Len(log) : log[i].turn > compacted
            BY <2>2 DEF Starts, Forward
        <3>2. PICK t, run, rest : t \in Turns /\ EnterCompact(t, run, rest)
            BY <2>2 DEF Starts
        <3>3. turn'.compacted > compacted
            BY <3>1, <3>2, CutAhead
        <3> QED
            BY <2>2, <3>3 DEF Starts
    <2> QED
        BY <1>3, <2>1, <2>2, StepCompact
<1>4. ASSUME compacted' # compacted
      PROVE  compacted' > compacted
    <2>1. PICK r \in pending : FinishCompact(r) /\ Summarised(r)
        BY <1>4 DEF Next, PreWithoutModel, Pre, Dispatch, ManualCompact, Steer, Abort, Rollback,
           Provider, Timer, Tool, RetryTimer, ToolDone, Receive, Permission, UserInput,
           FinishCompact, FinishStream, conversation, vars
    <2>2. compacted' = turn.compacted
        BY <2>1 DEF Summarised
    <2>3. r.kind = "compact" /\ Effective(r)
        BY <2>1 DEF FinishCompact, Effective, Replies
    <2>4. state = "Compact"
        BY <2>3, EffectiveDrives DEF Drives, Fits, Streaming
    <2> QED
        BY <2>2, <2>4 DEF Forward
<1> QED
    BY <1>2, <1>3, <1>4 DEF Forward

-----------------------------------------------------------------------------

(***************************************************************************)
(* What the user said to the turn in progress.                             *)
(***************************************************************************)

Texts(message) == IF message.role = "user" THEN message.filled ELSE 0

IsSum(f, messages, n) ==
    f = [k \in 0 .. n |-> IF k = 0 THEN 0 ELSE f[k - 1] + Texts(messages[k])]

LEMMA SetInduction ==
    ASSUME NEW S, 0 \in S, \A n \in Nat : n \in S => n + 1 \in S
    PROVE  \A n \in Nat : n \in S
<1> DEFINE T == Nat \ S
<1> SUFFICES ASSUME T # {} PROVE FALSE
    OBVIOUS
<1>1. T \subseteq Nat
    OBVIOUS
<1>2. PICK x \in T : \A y \in T : ~(<<y, x>> \in OpToRel(<, Nat))
    <2> HIDE DEF T
    <2> QED
        BY <1>1, NatLessThanWellFounded, WFMin
<1>3. x \in Nat /\ x # 0 /\ x - 1 \in Nat /\ x - 1 < x
    OBVIOUS
<1>4. <<x - 1, x>> \in OpToRel(<, Nat)
    BY <1>3 DEF OpToRel
<1>5. x - 1 \in T
    BY <1>3
<1> QED
    BY <1>2, <1>4, <1>5

LEMMA SumExists ==
    ASSUME NEW messages
    PROVE  \A n \in Nat : \E f : IsSum(f, messages, n)
<1> DEFINE Exists(n) == \E f : IsSum(f, messages, n)
           S == {n \in Nat : Exists(n)}
           After(n, x) == x + Texts(messages[n])
<1>1. Exists(0)
    <2> DEFINE f == [k \in 0 .. 0 |-> 0]
    <2>1. IsSum(f, messages, 0)
        BY DEF IsSum
    <2> QED
        BY <2>1
<1>2. ASSUME NEW n \in Nat, Exists(n)
      PROVE  Exists(n + 1)
    <2>1. PICK f : IsSum(f, messages, n)
        BY <1>2
    <2> DEFINE g == [k \in 0 .. n + 1 |-> IF k <= n THEN f[k] ELSE After(n + 1, f[n])]
    <2>2. \A k \in 0 .. n : f[k] = IF k = 0 THEN 0 ELSE After(k, f[k - 1])
        BY <2>1 DEF IsSum
    <2>3. ASSUME NEW k \in 0 .. n + 1
          PROVE  g[k] = IF k = 0 THEN 0 ELSE After(k, g[k - 1])
        <3> HIDE DEF After
        <3>1. CASE k = 0
            BY <2>2, <3>1
        <3>2. CASE k \in 1 .. n
            <4>1. g[k] = f[k] /\ g[k - 1] = f[k - 1]
                BY <3>2
            <4> QED
                BY <2>2, <3>2, <4>1
        <3>3. CASE k = n + 1
            <4>1. g[k] = After(n + 1, f[n]) /\ g[k - 1] = f[n]
                BY <3>3
            <4> QED
                BY <3>3, <4>1
        <3> QED
            BY <3>1, <3>2, <3>3
    <2>4. IsSum(g, messages, n + 1)
        <3>1. g = [k \in 0 .. n + 1 |-> g[k]]
            OBVIOUS
        <3> HIDE DEF g
        <3> QED
            BY <2>3, <3>1 DEF IsSum
    <2> QED
        BY <2>4
<1>3. \A n \in Nat : n \in S
    <2>1. 0 \in S /\ \A n \in Nat : n \in S => n + 1 \in S
        <3> HIDE DEF Exists
        <3> QED
            BY <1>1, <1>2
    <2> HIDE DEF S
    <2> QED
        BY <2>1, SetInduction
<1> QED
    BY <1>3

(* f adds up the texts of the first n messages. *)
Sums(f, messages, n) ==
    /\ f[0] = 0
    /\ \A k \in 1 .. n : f[k] = f[k - 1] + Texts(messages[k])

(* The first n messages of m and g hold the same texts; those of g from    *)
(* n + 1 to n + d hold none.                                               *)
Agree(m, g, n) == \A k \in 1 .. n : Texts(m[k]) = Texts(g[k])
Silent(g, n, d) == \A k \in n + 1 .. n + d : Texts(g[k]) = 0

LEMMA TextsSum ==
    ASSUME NEW messages \in Seq(Messages)
    PROVE  \E f : /\ TextsOf(messages) = f[Len(messages)]
                  /\ Sums(f, messages, Len(messages))
<1>1. PICK n \in Nat : n = Len(messages)
    OBVIOUS
<1>2. PICK f : f = CHOOSE h : IsSum(h, messages, n)
    OBVIOUS
<1>3. IsSum(f, messages, n)
    BY <1>2, SumExists
<1>4. TextsOf(messages) = f[n]
    BY <1>1, <1>2 DEF TextsOf, IsSum, Texts
<1>5. Sums(f, messages, n)
    BY <1>3 DEF IsSum, Sums
<1> QED
    BY <1>1, <1>4, <1>5

LEMMA SumsAgree ==
    ASSUME NEW f, NEW h, NEW m, NEW g, NEW n \in Nat,
           Sums(f, m, n), Sums(h, g, n), Agree(m, g, n)
    PROVE  h[n] = f[n]
<1> DEFINE T == {k \in Nat : k <= n => h[k] = f[k]}
<1>1. 0 \in T
    BY DEF Sums
<1>2. ASSUME NEW k \in Nat, k \in T
      PROVE  k + 1 \in T
    <2>1. CASE k + 1 <= n
        <3>1. PICK j \in 1 .. n : j = k + 1 /\ j - 1 = k
            BY <2>1
        <3>2. /\ h[j] = h[j - 1] + Texts(g[j]) /\ f[j] = f[j - 1] + Texts(m[j])
              /\ Texts(m[j]) = Texts(g[j]) /\ h[k] = f[k]
            BY <1>2, <2>1 DEF Sums, Agree
        <3>3. h[j] = f[j]
            BY <3>1, <3>2
        <3> QED
            BY <3>1, <3>3
    <2> QED
        BY <2>1
<1>3. \A k \in Nat : k \in T
    <2> HIDE DEF T
    <2> QED
        BY <1>1, <1>2, SetInduction
<1> QED
    BY <1>3

LEMMA SumsStay ==
    ASSUME NEW h, NEW g, NEW n \in Nat, NEW d \in Nat, h[n] \in Nat,
           Sums(h, g, n + d), Silent(g, n, d)
    PROVE  h[n + d] = h[n]
<1> DEFINE T == {k \in Nat : k <= d => h[n + k] = h[n]}
<1>1. 0 \in T
    OBVIOUS
<1>2. ASSUME NEW k \in Nat, k \in T
      PROVE  k + 1 \in T
    <2>1. CASE k + 1 <= d
        <3>1. PICK j \in n + 1 .. n + d : j = n + (k + 1) /\ j - 1 = n + k
            BY <2>1
        <3>2. h[j] = h[j - 1] + Texts(g[j]) /\ Texts(g[j]) = 0 /\ h[n + k] = h[n]
            BY <1>2, <2>1 DEF Sums, Silent
        <3>3. h[j] = h[n]
            BY <3>1, <3>2
        <3> QED
            BY <3>1, <3>3
    <2> QED
        BY <2>1
<1>3. \A k \in Nat : k \in T
    <2> HIDE DEF T
    <2> QED
        BY <1>1, <1>2, SetInduction
<1> QED
    BY <1>3

LEMMA SumType ==
    ASSUME NEW f, NEW m, NEW n \in Nat, Sums(f, m, n),
           \A k \in 1 .. n : m[k] \in Messages
    PROVE  f[n] \in Nat
<1> DEFINE T == {k \in Nat : k <= n => f[k] \in Nat}
<1>1. 0 \in T
    BY DEF Sums
<1>2. ASSUME NEW k \in Nat, k \in T
      PROVE  k + 1 \in T
    <2>1. CASE k + 1 <= n
        <3>1. PICK j \in 1 .. n : j = k + 1 /\ j - 1 = k
            BY <2>1
        <3>2. f[j] = f[j - 1] + Texts(m[j]) /\ f[k] \in Nat
            BY <1>2, <2>1 DEF Sums
        <3>3. Texts(m[j]) \in Nat
            BY DEF Texts, Messages
        <3>4. f[j] \in Nat
            BY <3>1, <3>2, <3>3
        <3> QED
            BY <3>1, <3>4
    <2> QED
        BY <2>1
<1>3. \A k \in Nat : k \in T
    <2> HIDE DEF T
    <2> QED
        BY <1>1, <1>2, SetInduction
<1> QED
    BY <1>3

LEMMA TextsOfType ==
    ASSUME NEW m \in Seq(Messages)
    PROVE  TextsOf(m) \in Nat
<1>1. PICK n \in Nat : n = Len(m)
    OBVIOUS
<1>2. PICK f : TextsOf(m) = f[n] /\ Sums(f, m, n)
    BY <1>1, TextsSum
<1>3. \A k \in 1 .. n : m[k] \in Messages
    BY <1>1
<1> QED
    BY <1>2, <1>3, SumType

(* Messages that go on with what says nothing add no text. *)
LEMMA TextsKeep ==
    ASSUME NEW m \in Seq(Messages), NEW g \in Seq(Messages), NEW d \in Nat,
           Len(g) = Len(m) + d, Agree(m, g, Len(m)), Silent(g, Len(m), d)
    PROVE  TextsOf(g) = TextsOf(m)
<1>1. PICK n \in Nat : n = Len(m)
    OBVIOUS
<1>2. Len(g) = n + d /\ Agree(m, g, n) /\ Silent(g, n, d)
    BY <1>1
<1>3. PICK f : TextsOf(m) = f[n] /\ Sums(f, m, n)
    BY <1>1, TextsSum
<1>4. PICK h : TextsOf(g) = h[n + d] /\ Sums(h, g, n + d)
    BY <1>2, TextsSum
<1>5. Sums(h, g, n)
    BY <1>4 DEF Sums
<1>6. h[n] = f[n]
    BY <1>2, <1>3, <1>5, SumsAgree
<1>7. f[n] \in Nat
    BY <1>3, TextsOfType
<1>8. h[n + d] = h[n]
    BY <1>2, <1>4, <1>6, <1>7, SumsStay
<1> QED
    BY <1>3, <1>4, <1>6, <1>8

LEMMA TextsAppend ==
    ASSUME NEW m \in Seq(Messages), NEW e \in Messages
    PROVE  TextsOf(Append(m, e)) = TextsOf(m) + Texts(e)
<1>1. PICK n \in Nat : n = Len(m)
    OBVIOUS
<1>2. Append(m, e) \in Seq(Messages)
    OBVIOUS
<1>3. PICK g : g = Append(m, e)
    OBVIOUS
<1>4. /\ g \in Seq(Messages) /\ Len(g) = n + 1 /\ g[n + 1] = e
      /\ \A k \in 1 .. n : g[k] = m[k]
    BY <1>1, <1>2, <1>3
<1>5. PICK f : TextsOf(m) = f[n] /\ Sums(f, m, n)
    BY <1>1, TextsSum
<1>6. PICK h : TextsOf(g) = h[n + 1] /\ Sums(h, g, n + 1)
    BY <1>4, TextsSum
<1>7. Sums(h, g, n) /\ Agree(m, g, n)
    BY <1>4, <1>6 DEF Sums, Agree
<1>8. h[n] = f[n]
    BY <1>5, <1>7, SumsAgree
<1>9. h[n + 1] = h[n] + Texts(e)
    <2>1. PICK j \in 1 .. n + 1 : j = n + 1 /\ j - 1 = n
        OBVIOUS
    <2> QED
        BY <1>4, <1>6, <2>1 DEF Sums
<1> QED
    BY <1>3, <1>5, <1>6, <1>8, <1>9

(* The texts a turn holds and those that wait. *)
Total(t) == TextsOf(t.messages) + t.steering

(* A step that completes no turn. *)
Quietly == \/ log' = log
           \/ \E e \in Entries : log' = Append(log, e) /\ e.status # "Completed"

(* What a chain of stateSet calls entered with t does with its texts. *)
Sounds(t) == /\ turn'.id # 0 => Total(turn') = Total(t)
             /\ Quietly

LEMMA EndSounds ==
    ASSUME NEW t, t.id \in Nat, NEW status \in {"Error", "Aborted"}, NEW rest,
           EnterComplete(t, status, rest)
    PROVE  Sounds(t)
<1>1. turn'.id = 0
    BY DEF EnterComplete, NoTurn
<1>2. PICK e : e = [turn |-> t.id, status |-> status]
    OBVIOUS
<1>3. e \in Entries /\ e.status # "Completed"
    BY <1>2 DEF Entries, Status
<1>4. log' = log \/ log' = Append(log, e)
    BY <1>2 DEF EnterComplete
<1> QED
    BY <1>1, <1>3, <1>4 DEF Sounds, Quietly

LEMMA RequestSounds ==
    ASSUME NEW t \in Turns, NEW run, NEW rest, EnterRequest(t, run, rest)
    PROVE  Sounds(t)
<1> DEFINE spoken == Message("user", t.steering)
           silent == Message("assistant", 0)
           heard == IF t.steering = 0 THEN t.messages ELSE Append(t.messages, spoken)
           asked == Append(heard, silent)
<1>1. t.messages \in Seq(Messages) /\ t.steering \in Nat
    BY TurnsAre
<1>2. /\ spoken \in Messages /\ Texts(spoken) = t.steering
      /\ silent \in Messages /\ Texts(silent) = 0
    BY <1>1 DEF Message, Messages, Texts
<1>3. /\ turn' = [t EXCEPT !.messages = asked, !.steering = 0, !.seen = {}]
      /\ log' = log
    BY DEF EnterRequest
<1>4. TextsOf(t.messages) \in Nat
    BY <1>1, TextsOfType
<1> HIDE DEF spoken, silent
<1>5. heard \in Seq(Messages) /\ TextsOf(heard) = Total(t)
    BY <1>1, <1>2, <1>4, TextsAppend DEF Total
<1> HIDE DEF heard
<1>6. TextsOf(asked) = TextsOf(heard) + 0 /\ TextsOf(heard) \in Nat
    BY <1>2, <1>5, TextsAppend, TextsOfType
<1> HIDE DEF asked
<1>7. turn'.messages = asked /\ turn'.steering = 0
    BY <1>3, TurnsAre
<1> QED
    BY <1>3, <1>5, <1>6, <1>7 DEF Sounds, Quietly, Total

LEMMA CompactSounds ==
    ASSUME NEW t \in Turns, NEW run, NEW rest, EnterCompact(t, run, rest)
    PROVE  Sounds(t)
<1>1. PICK cut : turn' = [t EXCEPT !.compacted = cut] /\ log' = log
    BY DEF EnterCompact
<1>2. turn'.messages = t.messages /\ turn'.steering = t.steering
    BY <1>1, TurnsAre
<1> QED
    BY <1>1, <1>2 DEF Sounds, Quietly, Total

(* A result is no text of the user's. *)
LEMMA FilledTexts ==
    ASSUME NEW t \in Turns, Speaks(t), NEW to \in Nat, to <= Len(t.calls)
    PROVE  TextsOf(Filled(t, t.index, to)) = TextsOf(t.messages)
<1>1. PICK f : f = t.messages
    OBVIOUS
<1>2. PICK g : g = Filled(t, t.index, to)
    OBVIOUS
<1>3. /\ f \in Seq(Messages) /\ t.index \in Nat \ {0} /\ Due(f, t.calls, t.index)
      /\ Len(f) \in Nat /\ Len(t.calls) \in Nat
    BY <1>1, TurnsAre DEF Speaks
<1>4. g \in Seq(Messages)
    BY <1>2, FilledType
<1>5. g = [m \in 1 .. Len(f) |-> IF \E k \in t.index .. to : t.calls[k].message = m
                                 THEN [f[m] EXCEPT !.filled = 1] ELSE f[m]]
    BY <1>1, <1>2 DEF Filled
<1>6. Len(g) = Len(f) + 0
    BY <1>3, <1>4, <1>5
<1>7. ASSUME NEW m \in 1 .. Len(f)
      PROVE  Texts(f[m]) = Texts(g[m])
    <2>1. CASE \E k \in t.index .. to : t.calls[k].message = m
        <3>1. f[m].role = "tool" /\ f[m] \in Messages
            BY <1>3, <2>1 DEF Due
        <3>2. g[m] = [f[m] EXCEPT !.filled = 1]
            BY <1>5, <2>1
        <3>3. g[m].role = "tool"
            BY <3>1, <3>2 DEF Messages
        <3> QED
            BY <3>1, <3>3 DEF Texts
    <2>2. CASE ~\E k \in t.index .. to : t.calls[k].message = m
        BY <1>5, <2>2
    <2> QED
        BY <2>1, <2>2
<1>8. Agree(f, g, Len(f)) /\ Silent(g, Len(f), 0)
    BY <1>3, <1>7 DEF Agree, Silent
<1> QED
    BY <1>1, <1>2, <1>3, <1>4, <1>6, <1>8, TextsKeep

LEMMA AnsweredTotal ==
    ASSUME NEW t \in Turns, t.failures < FailureLimit, Speaks(t),
           NEW to \in Nat, to <= Len(t.calls)
    PROVE  Total(Answered(t, t.index, to)) = Total(t)
BY AnsweredGood, FilledTexts DEF Total

LEMMA ToolCallSounds ==
    ASSUME NEW t, GoodTurn(t), Speaks(t), NEW run, NEW rest, EnterToolCall(t, run, rest)
    PROVE  Sounds(t)
<1> DEFINE U(n) == Answered(t, t.index, n - 1)
<1>1. PICK n \in t.index .. Len(t.calls) + 1 :
          \/ EnterRequest(U(n), run, rest)
          \/ turn' = U(n) /\ log' = log
    BY DEF EnterToolCall
<1>2. /\ t \in Turns /\ t.index \in Nat \ {0}
      /\ t.failures < FailureLimit /\ Len(t.calls) \in Nat
    BY TurnsAre DEF GoodTurn
<1>3. n - 1 \in Nat /\ n - 1 <= Len(t.calls)
    BY <1>2
<1>4. U(n) \in Turns /\ Total(U(n)) = Total(t)
    BY <1>2, <1>3, AnsweredGood, AnsweredTotal
<1> HIDE DEF U
<1>5. EnterRequest(U(n), run, rest) => Sounds(U(n))
    BY <1>4, RequestSounds
<1> QED
    BY <1>1, <1>4, <1>5 DEF Sounds, Quietly

LEMMA ToolResultSounds ==
    ASSUME NEW t \in Turns, t.failures < FailureLimit, t.index <= Len(t.calls), Speaks(t),
           NEW success \in BOOLEAN, NEW run, NEW rest, ToolResultSet(t, success, run, rest)
    PROVE  Sounds(t)
<1> DEFINE tool == t.calls[t.index].tool
           a == Answered(t, t.index, t.index)
           failed == IF success THEN {} ELSE {tool}
           count == IF success THEN 0
                    ELSE IF t.failedTool = {tool} THEN t.failures + 1 ELSE 1
           done == [a EXCEPT !.failedTool = failed, !.failures = count]
<1>1. IF done.failures >= FailureLimit \/ done.callCount >= CallLimit
      THEN EnterError(done, rest)
      ELSE EnterToolCall(done, run, rest)
    BY DEF ToolResultSet
<1>2. t.index \in Nat \ {0} /\ t.failures \in Nat /\ t.calls \in Seq(Calls)
    BY TurnsAre
<1>3. tool \in Tools
    <2>1. t.calls[t.index] \in Calls
        BY <1>2
    <2> QED
        BY <2>1 DEF Calls
<1>4. failed \in SUBSET Tools /\ count \in Nat
    BY <1>2, <1>3
<1>5. a \in Turns /\ Speaks(a) /\ Total(a) = Total(t)
    BY <1>2, AnsweredGood, AnsweredSpeaks, AnsweredTotal
<1> HIDE DEF tool, a, failed, count
<1>6. /\ done \in Turns /\ done.messages = a.messages /\ done.steering = a.steering
      /\ done.calls = a.calls /\ done.index = a.index
    BY <1>4, <1>5, TurnsAre
<1> HIDE DEF done
<1>7. /\ done.id \in Nat /\ done.failures \in Nat /\ done.callCount \in Nat
      /\ Speaks(done) /\ Total(done) = Total(t)
    BY <1>5, <1>6, TurnsAre DEF Speaks, Total
<1>8. CASE done.failures >= FailureLimit \/ done.callCount >= CallLimit
    <2>1. EnterComplete(done, "Error", rest)
        BY <1>1, <1>8 DEF EnterError
    <2>2. Sounds(done)
        BY <1>7, <2>1, EndSounds
    <2> QED
        BY <1>7, <2>2 DEF Sounds
<1>9. CASE ~(done.failures >= FailureLimit \/ done.callCount >= CallLimit)
    <2>1. GoodTurn(done)
        BY <1>6, <1>7, <1>9, AgentAssumption DEF GoodTurn
    <2>2. Sounds(done)
        BY <1>1, <1>7, <1>9, <2>1, ToolCallSounds
    <2> QED
        BY <1>7, <2>2 DEF Sounds
<1> QED
    BY <1>8, <1>9

(* The invariant, up to the second manual compaction: the turn in progress *)
(* has its own text and those it was steered with.                         *)
Heard == /\ turn.id # 0 => Total(turn) = 1 + steered
         /\ ~Primary => steered = 0

(* The step that completes a turn, and what it finds. *)
Completes == Len(log') > Len(log) /\ log'[Len(log')].status = "Completed"
Answers == /\ TextsOf(turn.messages) = 1 + steered
           /\ turn.messages[Len(turn.messages)].role = "assistant"

LEMMA QuietlyOn == ASSUME IInv, Quietly PROVE ~Completes
<1>1. log \in Seq(Entries)
    BY IInvParts
<1>2. CASE log' = log
    BY <1>1, <1>2 DEF Completes
<1>3. ASSUME NEW e \in Entries, log' = Append(log, e), e.status # "Completed"
      PROVE  ~Completes
    <2>1. Len(log') = Len(log) + 1 /\ log'[Len(log) + 1] = e
        BY <1>1, <1>3
    <2> QED
        BY <1>3, <2>1 DEF Completes
<1> QED
    BY <1>2, <1>3 DEF Quietly

LEMMA TurnStays ==
    ASSUME IInv, [Next]_vars, created' = created
    PROVE  turn'.id \in {0, turn.id}
<1>1. Refines /\ created \in Nat
    BY StepGood, IInvParts DEF Good, Outside
<1>2. ~Turn!Begin
    BY <1>1 DEF Turn!Begin
<1> QED
    BY <1>1, <1>2 DEF Refines, Turn!Next, Turn!End, Turn!TakeBack

LEMMA SoundsHeard ==
    ASSUME IInv, [Next]_vars, Heard, NEW t, Total(t) = Total(turn), Sounds(t),
           created' = created, steered' = steered
    PROVE  Heard' /\ ~Completes
<1>1. turn'.id # 0 => turn.id # 0
    BY TurnStays
<1>2. turn'.id # 0 => Total(turn') = Total(turn)
    BY DEF Sounds
<1>3. Quietly
    BY DEF Sounds
<1> QED
    BY <1>1, <1>2, <1>3, QuietlyOn DEF Heard, Total

LEMMA SameHeard ==
    ASSUME IInv, Heard, turn'.id = turn.id, turn'.messages = turn.messages,
           turn'.steering = turn.steering, log' = log, steered' = steered
    PROVE  Heard' /\ ~Completes
BY QuietlyOn DEF Heard, Total, Quietly

LEMMA IdleHeard ==
    ASSUME IInv, Heard, turn' = NoTurn, log' = log, steered' = steered
    PROVE  Heard' /\ ~Completes
BY QuietlyOn DEF Heard, Total, Quietly, NoTurn

LEMMA NewTurnTotal == Total(NewTurn) = 1
<1>1. PICK e : e = Message("user", 1)
    OBVIOUS
<1>2. e \in Messages /\ Texts(e) = 1
    BY <1>1 DEF Message, Messages, Texts
<1>3. NewTurn.messages = <<e>> /\ NewTurn.steering = 0
    BY <1>1 DEF NewTurn, NoTurn
<1>4. <<e>> = Append(<< >>, e) /\ << >> \in Seq(Messages) /\ Len(<< >>) = 0
    OBVIOUS
<1>5. TextsOf(<<e>>) = TextsOf(<< >>) + 1
    BY <1>2, <1>4, TextsAppend
<1>6. PICK m \in Seq(Messages) : m = << >>
    BY <1>4
<1>7. PICK f : TextsOf(m) = f[Len(m)] /\ Sums(f, m, Len(m))
    BY TextsSum
<1>8. TextsOf(m) = 0
    BY <1>4, <1>6, <1>7 DEF Sums
<1> QED
    BY <1>3, <1>5, <1>6, <1>8 DEF Total

LEMMA BeginHeard ==
    ASSUME IInv, Heard, Pre \/ Dispatch
    PROVE  Heard' /\ ~Completes
<1>1. /\ created \in Nat /\ NewTurn \in Turns /\ steered \in Nat
    BY IInvParts, NewTurnGood DEF Outside, GoodTurn
<1>2. Sounds(NewTurn)
    BY <1>1, RequestSounds, CompactSounds DEF Pre, Dispatch
<1>3. steered' = 0
    BY DEF Pre, Dispatch, Heard
<1>4. Quietly /\ (turn'.id # 0 => Total(turn') = 1)
    BY <1>2, NewTurnTotal DEF Sounds
<1> QED
    BY <1>3, <1>4, QuietlyOn DEF Heard, Total

LEMMA ManualCompactHeard ==
    ASSUME IInv, [Next]_vars, Heard, ManualCompact
    PROVE  Heard' /\ ~Completes
<1>1. turn \in Turns /\ created' = created /\ steered' = steered
    BY IInvParts DEF GoodTurn, ManualCompact
<1>2. Sounds(turn)
    BY <1>1, CompactSounds DEF ManualCompact
<1> QED
    BY <1>1, <1>2, SoundsHeard

LEMMA SteerHeard ==
    ASSUME IInv, Heard, Steer
    PROVE  Heard' /\ ~Completes
<1>1. PICK n : n = turn.steering + 1
    OBVIOUS
<1>2. turn' = [turn EXCEPT !.steering = n] /\ log' = log /\ steered' = steered + 1 /\ Primary
    BY <1>1 DEF Steer
<1>3. /\ turn'.id = turn.id /\ turn'.messages = turn.messages /\ turn'.steering = n
      /\ turn.messages \in Seq(Messages) /\ turn.steering \in Nat /\ steered \in Nat
    BY <1>2, IInvParts, TurnsAre DEF GoodTurn, Outside
<1>4. TextsOf(turn.messages) \in Nat
    BY <1>3, TextsOfType
<1>5. Total(turn') = Total(turn) + 1
    BY <1>1, <1>3, <1>4 DEF Total
<1>6. Quietly
    BY <1>2 DEF Quietly
<1> QED
    BY <1>2, <1>3, <1>5, <1>6, QuietlyOn DEF Heard

LEMMA AbortHeard ==
    ASSUME IInv, [Next]_vars, Heard, Abort
    PROVE  Heard' /\ ~Completes
<1>1. turn.id \in Nat /\ created' = created /\ steered' = steered
    BY IInvParts, TurnsAre DEF GoodTurn, Abort, user
<1>2. Sounds(turn)
    BY <1>1, EndSounds DEF Abort
<1> QED
    BY <1>1, <1>2, SoundsHeard

LEMMA RollbackHeard ==
    ASSUME IInv, Heard, Rollback
    PROVE  Heard' /\ ~Completes
<1>1. /\ turn' = turn /\ steered' = steered /\ log \in Seq(Entries) /\ log # << >>
      /\ log' = SubSeq(log, 1, Len(log) - 1)
    BY IInvParts DEF Rollback
<1>2. Len(log) \in Nat /\ Len(log) # 0
    BY <1>1
<1>3. PICK top \in Nat : top = Len(log) - 1
    BY <1>2
<1>4. Len(log') = top
    <2>1. top <= Len(log)
        BY <1>2, <1>3
    <2>2. Len(SubSeq(log, 1, top)) = top
        BY <1>1, <2>1, SubSeqTop
    <2> QED
        BY <1>1, <1>3, <2>2
<1>5. ~Completes
    BY <1>2, <1>3, <1>4 DEF Completes
<1> QED
    BY <1>1, <1>5 DEF Heard, Total

LEMMA RetryOrErrorHeard ==
    ASSUME IInv, [Next]_vars, Heard, NEW r \in pending, RetryOrError(r, pending \ {r}),
           created' = created, steered' = steered
    PROVE  Heard' /\ ~Completes
<1>1. CASE EnterError(turn, pending \ {r})
    BY <1>1, AnswerFacts, EndSounds, SoundsHeard DEF EnterError
<1>2. CASE ~EnterError(turn, pending \ {r})
    BY <1>2, SameHeard DEF RetryOrError
<1> QED
    BY <1>1, <1>2

LEMMA FinishCompactHeard ==
    ASSUME IInv, [Next]_vars, Heard, NEW r \in pending, FinishCompact(r)
    PROVE  Heard' /\ ~Completes
<1>1. created' = created /\ steered' = steered
    BY DEF FinishCompact, user
<1>2. CASE Summarised(r)
    <2> DEFINE t == [turn EXCEPT !.compacted = 0]
    <2>1. /\ t \in Turns /\ t.id = turn.id /\ t.messages = turn.messages
          /\ t.steering = turn.steering
        BY AnswerFacts, TurnsAre
    <2>2. \/ turn' = t /\ log' = log
          \/ EnterRequest(t, r.run, pending \ {r})
        BY <1>2 DEF Summarised
    <2> HIDE DEF t
    <2>3. CASE turn' = t /\ log' = log
        BY <1>1, <2>1, <2>3, SameHeard
    <2>4. CASE EnterRequest(t, r.run, pending \ {r})
        <3>1. Sounds(t) /\ Total(t) = Total(turn)
            BY <2>1, <2>4, RequestSounds DEF Total
        <3> QED
            BY <1>1, <3>1, SoundsHeard
    <2> QED
        BY <2>2, <2>3, <2>4
<1>3. CASE EnterError(turn, pending \ {r})
    BY <1>1, <1>3, AnswerFacts, EndSounds, SoundsHeard DEF EnterError
<1>4. CASE RetryOrError(r, pending \ {r})
    BY <1>1, <1>4, RetryOrErrorHeard
<1> QED
    BY <1>2, <1>3, <1>4 DEF FinishCompact

(* The calls and their results hold no text. *)
LEMMA CallsTexts ==
    ASSUME NEW f \in Seq(Messages), NEW n \in Nat,
           Len(f) # 0, f[Len(f)] = Message("assistant", 0)
    PROVE  TextsOf([f EXCEPT ![Len(f)].filled = n] \o [k \in 1 .. n |-> Message("tool", 0)])
           = TextsOf(f)
<1>1. PICK old \in Nat \ {0} : old = Len(f)
    OBVIOUS
<1>2. PICK asked : asked = [f EXCEPT ![old].filled = n]
    OBVIOUS
<1>3. PICK results : results = [k \in 1 .. n |-> Message("tool", 0)]
    OBVIOUS
<1>4. asked \in Seq(Messages)
    BY <1>2, MessagesWith
<1>5. results \in Seq(Messages) /\ Len(results) = n
    BY <1>3, MessageType, IsASeq
<1>6. Len(asked) = old
    <2>1. DOMAIN asked = DOMAIN f
        BY <1>2
    <2>2. DOMAIN f = 1 .. Len(f) /\ DOMAIN asked = 1 .. Len(asked) /\ Len(asked) \in Nat
        BY <1>4
    <2> QED
        BY <1>1, <2>1, <2>2
<1>7. PICK g : g = asked \o results
    OBVIOUS
<1>8. /\ g \in Seq(Messages) /\ Len(g) = old + n
      /\ \A m \in 1 .. old : g[m] = asked[m]
      /\ \A m \in old + 1 .. old + n : m - old \in 1 .. n /\ g[m] = results[m - old]
    <2>1. g \in Seq(Messages) /\ Len(g) = Len(asked) + Len(results)
        BY <1>4, <1>5, <1>7, ConcatProperties
    <2>2. \A m \in old + 1 .. old + n : m - old \in 1 .. n /\ g[m] = results[m - old]
        BY <1>4, <1>5, <1>6, <1>7
    <2>3. \A m \in 1 .. Len(asked) : g[m] = asked[m]
        BY <1>4, <1>5, <1>7, ConcatProperties
    <2> QED
        BY <1>5, <1>6, <2>1, <2>2, <2>3
<1>9. ASSUME NEW m \in 1 .. old
      PROVE  Texts(f[m]) = Texts(g[m])
    <2>1. CASE m = old
        <3>1. f[m].role = "assistant"
            BY <1>1, <2>1 DEF Message
        <3>2. asked[m].role = "assistant"
            BY <1>1, <1>2, <2>1 DEF Message
        <3> QED
            BY <1>8, <3>1, <3>2 DEF Texts
    <2>2. CASE m # old
        BY <1>1, <1>2, <1>8, <2>2
    <2> QED
        BY <2>1, <2>2
<1>10. ASSUME NEW m \in old + 1 .. old + n
       PROVE  Texts(g[m]) = 0
    BY <1>3, <1>8 DEF Texts, Message
<1>11. Agree(f, g, Len(f)) /\ Silent(g, Len(f), n)
    BY <1>1, <1>9, <1>10 DEF Agree, Silent
<1> QED
    BY <1>1, <1>2, <1>3, <1>7, <1>8, <1>11, TextsKeep

LEMMA FinishStreamHeard ==
    ASSUME IInv, [Next]_vars, Driven, Spoken, Heard, NEW r \in pending, FinishStream(r)
    PROVE  Heard' /\ (Completes => Answers)
<1>1. created' = created /\ steered' = steered
    BY DEF FinishStream, user
<1>2. r.kind \in Replies /\ r.kind = "stream"
    BY DEF FinishStream, Replies
<1>3. Effective(r)
    BY <1>2 DEF Effective
<1>4. state \in Streaming /\ r.turn = turn.id /\ turn.id # 0
    BY <1>2, <1>3, EffectiveDrives DEF Driven, Drives, Fits, Streaming
<1>5. Speaks(turn) /\ Level(turn) /\ Fills(r, turn.messages)
    BY <1>4 DEF Spoken, Streaming, Calling
<1>6. /\ turn.messages # << >> /\ Len(turn.messages) # 0 /\ r.index = Len(turn.messages)
      /\ turn.messages[Len(turn.messages)] = Message("assistant", 0)
      /\ turn.messages \in Seq(Messages) /\ turn \in Turns
    BY <1>2, <1>5, AnswerFacts, TurnsAre DEF Fills
<1>7. ASSUME NEW batch \in Batches, FinishCalls(r, batch)
      PROVE  Heard' /\ ~Completes
    <2>1. PICK n \in Nat : n = Len(batch)
        <3>1. batch \in Seq(Tools)
            BY AgentAssumption
        <3> QED
            BY <3>1
    <2> DEFINE f == turn.messages
               messages == [f EXCEPT ![Len(f)].filled = n]
                           \o [k \in 1 .. n |-> Message("tool", 0)]
               calls == turn.calls \o [k \in 1 .. n |->
                                         [tool |-> batch[k], message |-> Len(f) + k]]
    <2>2. TextsOf(messages) = TextsOf(turn.messages)
        BY <1>6, CallsTexts
    <2>3. /\ Shaped(turn.messages) /\ Due(turn.messages, turn.calls, Len(turn.calls) + 1)
          /\ turn.calls \in Seq(Calls) /\ batch \in Seq(Tools)
        BY <1>5, <1>6, TurnsAre, AgentAssumption DEF Speaks, Level
    <2>4. Shaped(messages) /\ Due(messages, calls, Len(turn.calls) + 1)
        BY <1>6, <2>1, <2>3, CallsSpeak
    <2>5. PICK t : /\ GoodTurn(t) /\ t.messages = messages /\ t.steering = turn.steering
                   /\ t.calls = calls /\ t.index = turn.index
                   /\ EnterToolCall(t, r.run, pending \ {r})
        BY <1>6, <1>7, <2>1, FinishCallsEnters
    <2> HIDE DEF messages, calls
    <2>6. Speaks(t) /\ Total(t) = Total(turn)
        BY <1>5, <2>2, <2>4, <2>5 DEF Speaks, Level, Total
    <2>7. Sounds(t)
        BY <2>5, <2>6, ToolCallSounds
    <2> QED
        BY <1>1, <2>6, <2>7, SoundsHeard
<1>8. CASE turn.steering # 0 /\ EnterRequest(turn, r.run, pending \ {r})
    BY <1>1, <1>6, <1>8, RequestSounds, SoundsHeard
<1>9. CASE turn.steering = 0 /\ EnterComplete(turn, "Completed", pending \ {r})
    <2>1. turn' = NoTurn
        BY <1>9 DEF EnterComplete
    <2>2. Heard'
        BY <1>1, <2>1 DEF Heard, NoTurn
    <2>3. Total(turn) = TextsOf(turn.messages)
        BY <1>6, <1>9, TextsOfType DEF Total
    <2>4. turn.messages[Len(turn.messages)].role = "assistant"
        BY <1>6 DEF Message
    <2>5. Answers
        BY <1>4, <2>3, <2>4 DEF Answers, Heard
    <2> QED
        BY <2>2, <2>5
<1>10. CASE EnterError(turn, pending \ {r})
    BY <1>1, <1>10, AnswerFacts, EndSounds, SoundsHeard DEF EnterError
<1>11. CASE RetryOrError(r, pending \ {r})
    BY <1>1, <1>11, RetryOrErrorHeard
<1> QED
    BY <1>7, <1>8, <1>9, <1>10, <1>11 DEF FinishStream, FinishStop

LEMMA ReceiveHeard ==
    ASSUME IInv, Heard, NEW r \in pending, NEW what, Receive(r, what)
    PROVE  Heard' /\ ~Completes
<1>1. PICK n : turn' = [turn EXCEPT !.seen = n] /\ log' = log /\ steered' = steered
    BY DEF Receive, user
<1>2. /\ turn'.id = turn.id /\ turn'.messages = turn.messages
      /\ turn'.steering = turn.steering
    BY <1>1, AnswerFacts, TurnsAre
<1> QED
    BY <1>1, <1>2, SameHeard

LEMMA RetryTimerHeard ==
    ASSUME IInv, Heard, NEW p \in pending, RetryTimer(p)
    PROVE  Heard' /\ ~Completes
<1>1. /\ turn' = [turn EXCEPT !.seen = {}] \/ turn' = turn
      /\ log' = log /\ steered' = steered
    BY DEF RetryTimer, user
<1>2. /\ turn'.id = turn.id /\ turn'.messages = turn.messages
      /\ turn'.steering = turn.steering
    BY <1>1, AnswerFacts, TurnsAre
<1> QED
    BY <1>1, <1>2, SameHeard

LEMMA PermissionHeard ==
    ASSUME IInv, [Next]_vars, Spoken, Heard, NEW p \in pending, NEW status \in BOOLEAN,
           Permission(p, status)
    PROVE  Heard' /\ ~Completes
<1>1. created' = created /\ steered' = steered /\ turn.index <= Len(turn.calls)
    BY DEF Permission, user
<1>2. CASE ToolResultSet(turn, TRUE, p.run, pending \ {p})
    <2>1. Sounds(turn)
        BY <1>1, <1>2, AnswerFacts, ToolResultSounds DEF GoodTurn, Spoken
    <2> QED
        BY <1>1, <2>1, SoundsHeard
<1>3. CASE ~ToolResultSet(turn, TRUE, p.run, pending \ {p})
    BY <1>1, <1>3, SameHeard DEF Permission
<1> QED
    BY <1>2, <1>3

LEMMA UserInputHeard ==
    ASSUME IInv, [Next]_vars, Spoken, Heard, NEW p \in pending, NEW answered \in BOOLEAN,
           UserInput(p, answered)
    PROVE  Heard' /\ ~Completes
<1> DEFINE q == turn.questions /\ answered
           t == [turn EXCEPT !.questions = q]
<1>1. /\ turn.index <= Len(turn.calls) /\ created' = created /\ steered' = steered
      /\ ToolResultSet(t, TRUE, p.run, pending \ {p})
    BY DEF UserInput, user
<1>2. q \in BOOLEAN
    OBVIOUS
<1> HIDE DEF q
<1>3. /\ t \in Turns /\ t.failures = turn.failures /\ t.steering = turn.steering
      /\ t.index = turn.index /\ t.calls = turn.calls /\ t.messages = turn.messages
    BY <1>2, AnswerFacts, TurnsAre
<1> HIDE DEF t
<1>4. Speaks(t) /\ Total(t) = Total(turn)
    BY <1>3 DEF Spoken, Speaks, Total
<1>5. Sounds(t)
    BY <1>1, <1>3, <1>4, AnswerFacts, ToolResultSounds DEF GoodTurn
<1> QED
    BY <1>1, <1>4, <1>5, SoundsHeard

LEMMA ToolDoneHeard ==
    ASSUME IInv, [Next]_vars, Spoken, Heard, NEW p \in pending, NEW success \in BOOLEAN,
           ToolDone(p, success)
    PROVE  Heard' /\ ~Completes
<1> DEFINE count == IF turn.calls[turn.index].tool = Plan THEN turn.callCount
                    ELSE turn.callCount + 1
           t == [turn EXCEPT !.callCount = count]
<1>1. created' = created /\ steered' = steered
    BY DEF ToolDone, user
<1>2. CASE UNCHANGED <<turn, log>>
    BY <1>1, <1>2, SameHeard
<1>3. CASE state = "ToolExec" /\ ToolResultSet(t, success, p.run, pending \ {p})
    <2>1. turn.index <= Len(turn.calls) /\ count \in Nat
        BY <1>3, IInvParts, AnswerFacts, TurnsAre
    <2> HIDE DEF count
    <2>2. /\ t \in Turns /\ t.failures = turn.failures /\ t.steering = turn.steering
          /\ t.index = turn.index /\ t.calls = turn.calls /\ t.messages = turn.messages
        BY <2>1, AnswerFacts, TurnsAre
    <2> HIDE DEF t
    <2>3. Speaks(t) /\ Total(t) = Total(turn)
        BY <2>2 DEF Spoken, Speaks, Total
    <2>4. Sounds(t)
        BY <1>3, <2>1, <2>2, <2>3, AnswerFacts, ToolResultSounds DEF GoodTurn
    <2> QED
        BY <1>1, <2>3, <2>4, SoundsHeard
<1> QED
    BY <1>2, <1>3 DEF ToolDone

LEMMA StepHeard ==
    ASSUME IInv, [Next]_vars, Driven, Spoken, Heard
    PROVE  Heard' /\ (Completes => Answers)
<1>1. CASE UNCHANGED vars
    BY <1>1, SameHeard DEF vars, user
<1>2. CASE PreWithoutModel
    BY <1>2, IdleHeard DEF PreWithoutModel, user
<1>3. CASE Pre \/ Dispatch
    BY <1>3, BeginHeard
<1>4. CASE ManualCompact
    BY <1>4, ManualCompactHeard
<1>5. CASE Steer
    BY <1>5, SteerHeard
<1>6. CASE Abort
    BY <1>6, AbortHeard
<1>7. CASE Rollback
    BY <1>7, RollbackHeard
<1>8. CASE Provider
    BY <1>8, FinishCompactHeard, FinishStreamHeard DEF Provider
<1>9. CASE Timer
    BY <1>9, RetryTimerHeard DEF Timer
<1>10. CASE Tool
    BY <1>10, ToolDoneHeard DEF Tool
<1>11. CASE \E p \in pending, what \in {"Think", "Response"} : Receive(p, what)
    BY <1>11, ReceiveHeard
<1>12. CASE \E p \in pending, status \in BOOLEAN : Permission(p, status)
    BY <1>12, PermissionHeard
<1>13. CASE \E p \in pending, answered \in BOOLEAN : UserInput(p, answered)
    BY <1>13, UserInputHeard
<1> QED
    BY <1>1, <1>2, <1>3, <1>4, <1>5, <1>6, <1>7, <1>8, <1>9, <1>10, <1>11, <1>12, <1>13
       DEF Next

-----------------------------------------------------------------------------

(* The state keeps its types and no turn goes on with the limit of failed  *)
(* or of executed calls reached, whatever the limits are and however       *)
(* answers, timers and the user's calls interleave (toolResultSet, retry). *)
THEOREM AgentTypeOK == Spec => []TypeOK
<1>1. IInv /\ [Next]_vars => IInv'
    BY StepGood DEF Good
<1>2. IInv => TypeOK
    BY DEF IInv
<1> QED
    BY <1>1, <1>2, Initially, PTL DEF Spec

(* Every turn that is created is recorded exactly once, in order: no late  *)
(* answer, retry, abort or limit ends a turn twice or loses its record.    *)
THEOREM AgentRecordsTurns == Spec => RecordsTurns
<1>1. IInv /\ [Next]_vars => IInv'
    BY StepGood DEF Good
<1>2. IInv /\ [Next]_vars => [Turn!Next]_<<turn.id, created, log>>
    BY StepGood DEF Good, Refines
<1> QED
    BY <1>1, <1>2, Initially, PTL DEF Spec, RecordsTurns, Turn!Spec

LEMMA InitiallyDriven == Init => (compacts <= 1 => Driven)
BY DEF Init, Driven

(* Until the user has compacted by hand a second time, a busy runtime      *)
(* waits for exactly one answer, of its own turn and of the kind its state *)
(* names, and an idle one for none (stateSet, retry, abort, m_reply).      *)
THEOREM AgentOneDriver == Spec => [](compacts <= 1 => OneDriver)
<1>1. IInv /\ [Next]_vars => IInv'
    BY StepGood DEF Good
<1>2. IInv /\ (compacts <= 1 => Driven) => (compacts <= 1 => OneDriver)
    BY DrivenOneDriver
<1> QED
    BY <1>1, <1>2, Initially, InitiallyDriven, StepDriven, PTL DEF Spec

(* So long, a tool runs for the current turn only when the mode permits it *)
(* or the user approved that very call (permission, case ToolExec).        *)
THEOREM AgentApprovalHonoured == Spec => [](compacts <= 1 => ApprovalHonoured)
<1>1. IInv /\ [Next]_vars => IInv'
    BY StepGood DEF Good
<1>2. IInv /\ (compacts <= 1 => Driven) => (compacts <= 1 => ApprovalHonoured)
    BY DrivenApproval
<1> QED
    BY <1>1, <1>2, Initially, InitiallyDriven, StepDriven, PTL DEF Spec

(* Until a turn is taken back, every recorded turn that a request leaves   *)
(* out stands in the summary, whatever is compacted and however often it   *)
(* is stopped or retried (compactBuild, contextBuild).                     *)
THEOREM AgentHistoryKept == Spec => []HistoryKept
<1>1. IInv /\ [Next]_vars => IInv'
    BY StepGood DEF Good
<1>2. (rollbacks = 0 => Whole) => HistoryKept
    BY DEF Whole, HistoryKept
<1> QED
    BY <1>1, <1>2, Initially, InitiallyWhole, StepWhole, PTL DEF Spec

(* Until the user has compacted by hand a second time, each conversation   *)
(* that is posted has an answer to every tool call right behind the        *)
(* message that made it, and no other answers: in the turn in progress and *)
(* in the turns before it, however they ended.  Only where a turn was      *)
(* stopped or failed may an answer be empty (contextBuild,                 *)
(* conversationAppend, toolResultSet).                                     *)
THEOREM AgentContextWellFormed == Spec => [](compacts <= 1 => ContextWellFormed)
<1>1. IInv /\ [Next]_vars => IInv'
    BY StepGood DEF Good
<1>2. IInv /\ (compacts <= 1 => Driven) /\ (compacts <= 1 => Spoken)
          => (compacts <= 1 => ContextWellFormed)
    BY SpokenWellFormed
<1> QED
    BY <1>1, <1>2, Initially, InitiallyDriven, InitiallySpoken, StepDriven, StepSpoken,
       PTL DEF Spec

(* Until a turn is taken back and the user has compacted by hand a second  *)
(* time, the compacted turn is only ever replaced by a later one: whenever *)
(* a compaction is requested there is a turn to compact, and what is       *)
(* stored is the cut of that request (compactBuild, conversationCompact).  *)
THEOREM AgentCompactionAdvances ==
    Spec /\ [](rollbacks = 0 /\ compacts <= 1) => CompactionAdvances
<1> DEFINE Once == rollbacks = 0 /\ compacts <= 1
<1>1. IInv /\ [Next]_vars => IInv'
    BY StepGood DEF Good
<1>2. Init => Ordered /\ Forward
    BY DEF Init, Ordered, Forward, NoTurn
<1>3. /\ IInv /\ [Next]_vars /\ Once /\ Once'
      /\ (compacts <= 1 => Driven) /\ (rollbacks = 0 => Whole) /\ Ordered /\ Forward
      => Forward' /\ [compacted' # compacted => compacted' > compacted]_vars
    <2> SUFFICES ASSUME IInv, [Next]_vars, Once, Once', Driven, Whole, Ordered, Forward
                 PROVE  Forward' /\ (compacted' # compacted => compacted' > compacted)
        OBVIOUS
    <2>1. ~Rollback
        BY IInvParts DEF Rollback, Outside
    <2> QED
        BY <2>1, StepForward DEF Whole
<1>4. QED
    BY <1>1, <1>2, <1>3, Initially, InitiallyDriven, InitiallyWhole, StepDriven, StepWhole,
       StepOrdered, PTL DEF Spec, CompactionAdvances

(* Until the user has compacted by hand a second time, a turn completes    *)
(* with its own text and all it was steered with in its conversation, and  *)
(* an answer of the model behind them (steer, case Request, the branch on  *)
(* stop), however compactions, retries and tools come in between.          *)
THEOREM AgentSteeringAnswered == Spec /\ [](compacts <= 1) => SteeringAnswered
<1>1. IInv /\ [Next]_vars => IInv'
    BY StepGood DEF Good
<1>2. Init => Heard
    BY DEF Init, Heard, NoTurn
<1>3. /\ IInv /\ [Next]_vars /\ compacts <= 1 /\ Heard
      /\ (compacts <= 1 => Driven) /\ (compacts <= 1 => Spoken)
      => Heard' /\ [Completes => Answers]_vars
    BY StepHeard
<1>4. [Completes => Answers]_vars
      => [Len(log') > Len(log) /\ log'[Len(log')].status = "Completed" =>
            /\ TextsOf(turn.messages) = 1 + steered
            /\ turn.messages[Len(turn.messages)].role = "assistant"]_vars
    BY DEF Completes, Answers
<1> QED
    BY <1>1, <1>2, <1>3, <1>4, Initially, InitiallyDriven, InitiallySpoken, StepDriven,
       StepSpoken, PTL DEF Spec, SteeringAnswered
=============================================================================
