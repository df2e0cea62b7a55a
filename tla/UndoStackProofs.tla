-------------------------- MODULE UndoStackProofs --------------------------
(***************************************************************************)
(* For every number of groups, edits and steps and every limit: the undo   *)
(* history keeps its types and its limit, its groups are atomic until they *)
(* are in error (it implements AtomicChange), and what it shows is true.   *)
(* With the data table on it, for all keys, values and rows besides: its   *)
(* columns keep their cells, and what is refused leaves no trace.          *)
(***************************************************************************)
EXTENDS DataTable, SequenceTheorems, WellFoundedInduction, TLAPS

(* A group without error is whole, and an open one is in effect. *)
GoodData(d) == /\ d \in GroupData
               /\ ~d.error => InEffect(d)
               /\ ~d.committed => d.applied

(* The commands of groups on the stack are those of committed groups: a    *)
(* walk through the history touches no open one.                           *)
CommandGood(c) == /\ c.kind = "edit" => c.of \in pushed
                  /\ c.kind # "edit" => c.of \in begun /\ groups[c.of].committed

CommandsGood == \A i \in 1 .. Len(stack) : CommandGood(stack[i])

IInv == /\ TypeOK
        /\ \A g \in Groups : GoodData(groups[g])
        /\ \A g \in Groups \ begun : groups[g] = NewGroup
        /\ CommandsGood

(* One step of the data d of a group. *)
Advances(d, e) == /\ GoodData(e)
                  /\ d.error => e.error
                  /\ d.error => \A i \in 1 .. Len(d.steps) : e.steps[i] = d.steps[i]
                  /\ d.committed => e.committed
                  /\ d.committed \/ d.applied = e.applied

LEMMA NewGroupGood == GoodData(NewGroup)
<1>1. << >> \in Seq(BOOLEAN) /\ Len(<< >>) = 0
    OBVIOUS
<1>2. NewGroup \in GroupData
    BY <1>1 DEF NewGroup, GroupData
<1> QED
    BY <1>2 DEF GoodData, InEffect, NewGroup

LEMMA TurnedType ==
    ASSUME NEW d \in GroupData, NEW S, NEW redo \in BOOLEAN
    PROVE  /\ Turned(d, S, redo) \in Seq(BOOLEAN)
           /\ Len(Turned(d, S, redo)) = Len(d.steps)
           /\ \A i \in 1 .. Len(d.steps) :
                 Turned(d, S, redo)[i] = IF i \in S THEN redo ELSE d.steps[i]
<1>1. d.steps \in Seq(BOOLEAN) /\ Len(d.steps) \in Nat
    BY DEF GroupData
<1>2. \A i \in 1 .. Len(d.steps) : (IF i \in S THEN redo ELSE d.steps[i]) \in BOOLEAN
    BY <1>1
<1>3. [i \in 1 .. Len(d.steps) |-> IF i \in S THEN redo ELSE d.steps[i]] \in Seq(BOOLEAN)
    BY <1>1, <1>2, IsASeq
<1> QED
    BY <1>1, <1>3 DEF Turned

(* Undoing or redoing a group leaves it whole or in error. *)
LEMMA ExecutedAdvances ==
    ASSUME NEW d, GoodData(d), d.committed, NEW redo \in BOOLEAN,
           NEW outcome \in Executed(d, redo)
    PROVE  Advances(d, outcome.data)
<1>1. d \in GroupData /\ d.steps \in Seq(BOOLEAN) /\ Len(d.steps) \in Nat
    BY DEF GoodData, GroupData
<1>2. CASE outcome = [data |-> d, ok |-> FALSE]
    BY <1>2 DEF Advances
<1>3. CASE ~d.error /\ outcome = [data |-> Whole(d, redo), ok |-> TRUE]
    <2> DEFINE s == Turned(d, Ran(d, redo, Len(d.steps)), redo)
    <2>1. s \in Seq(BOOLEAN) /\ Len(s) = Len(d.steps)
        BY <1>1, TurnedType
    <2>2. Ran(d, redo, Len(d.steps)) = 1 .. Len(d.steps)
        BY <1>1 DEF Ran
    <2>3. \A i \in 1 .. Len(d.steps) : s[i] = redo
        BY <1>1, <2>2, TurnedType
    <2>4. Whole(d, redo) = [d EXCEPT !.steps = s, !.applied = redo]
        BY DEF Whole
    <2> HIDE DEF s
    <2>5. Whole(d, redo) \in GroupData
        BY <1>1, <2>1, <2>4 DEF GroupData
    <2>6. /\ Whole(d, redo).steps = s
          /\ Whole(d, redo).applied = redo
          /\ Whole(d, redo).error = d.error
          /\ Whole(d, redo).committed = d.committed
        BY <1>1, <2>4 DEF GroupData
    <2>7. InEffect(Whole(d, redo))
        BY <2>1, <2>3, <2>6 DEF InEffect
    <2> QED
        BY <1>3, <2>5, <2>6, <2>7 DEF Advances, GoodData
<1>4. ASSUME ~d.error, NEW k \in 0 .. Len(d.steps) - 1, NEW lost \in SUBSET Ran(d, redo, k),
             outcome = [data |-> Compensated(d, redo, lost), ok |-> FALSE]
      PROVE  Advances(d, outcome.data)
    <2> DEFINE s == Turned(d, lost, redo)
               e == Compensated(d, redo, lost)
               wrong == lost # {}
    <2>1. s \in Seq(BOOLEAN) /\ Len(s) = Len(d.steps)
        BY <1>1, TurnedType
    <2>2. lost = {} => \A i \in 1 .. Len(d.steps) : s[i] = d.steps[i]
        BY <1>1, TurnedType
    <2>3. e = [d EXCEPT !.steps = s, !.error = wrong] /\ wrong \in BOOLEAN
        BY DEF Compensated
    <2>4. wrong <=> lost # {}
        OBVIOUS
    <2>5. outcome.data = e
        BY <1>4
    <2> HIDE DEF s, e, wrong
    <2>6. e \in GroupData
        BY <1>1, <2>1, <2>3 DEF GroupData
    <2>7. /\ e.steps = s /\ e.applied = d.applied
          /\ e.error = wrong /\ e.committed = d.committed
        BY <1>1, <2>3 DEF GroupData
    <2>8. ~e.error => InEffect(e)
        BY <1>4, <2>1, <2>2, <2>4, <2>7 DEF InEffect, GoodData
    <2> QED
        BY <1>4, <2>5, <2>6, <2>7, <2>8 DEF Advances, GoodData
<1> QED
    BY <1>2, <1>3, <1>4 DEF Executed

-----------------------------------------------------------------------------

(* What an action does to the groups: at most one of them advances. *)
OneAdvances ==
    \/ groups' = groups
    \/ \E g \in begun : /\ groups' = [groups EXCEPT ![g] = groups'[g]]
                        /\ Advances(groups[g], groups'[g])

(* What an action does to the stack: it stays inside its limit, and has no *)
(* command but those in C beside the old ones.                             *)
StackAdvances(C) ==
    /\ stack' \in Seq(Commands) /\ Len(stack') <= Limit
    /\ index' \in 0 .. Len(stack') /\ goal' \in 0 .. Len(stack')
    /\ \A i \in 1 .. Len(stack') :
          stack'[i] \in C \/ \E j \in 1 .. Len(stack) : stack'[i] = stack[j]

LEMMA PushedAdvances ==
    ASSUME TypeOK, NEW c \in Commands, NEW ok \in BOOLEAN, Pushed(c, ok)
    PROVE  StackAdvances({c})
<1> DEFINE below == SubSeq(stack, 1, index)
           longer == IF ok THEN Append(below, c) ELSE below
<1>1. stack \in Seq(Commands) /\ Len(stack) \in Nat /\ Len(stack) <= Limit
      /\ index \in 0 .. Len(stack) /\ Limit \in Nat \ {0}
    BY UndoAssumption DEF TypeOK
<1>2. /\ below \in Seq(Commands) /\ Len(below) = index
      /\ \A i \in 1 .. index : below[i] = stack[i]
    BY <1>1
<1>3. /\ longer \in Seq(Commands) /\ Len(longer) <= Limit + 1
      /\ \A i \in 1 .. Len(longer) :
            longer[i] = c \/ \E j \in 1 .. Len(stack) : longer[i] = stack[j]
    <2> HIDE DEF below
    <2>1. CASE ok
        BY <1>1, <1>2, <2>1
    <2>2. CASE ~ok
        BY <1>1, <1>2, <2>2
    <2> QED
        BY <2>1, <2>2
<1>4. stack' = (IF Len(longer) > Limit THEN Tail(longer) ELSE longer)
      /\ index' = Len(stack') /\ goal' = index'
    BY DEF Pushed
<1> HIDE DEF longer, below
<1>5. CASE Len(longer) > Limit
    <2>1. /\ Tail(longer) \in Seq(Commands) /\ Len(Tail(longer)) = Len(longer) - 1
          /\ \A i \in 1 .. Len(longer) - 1 : Tail(longer)[i] = longer[i + 1]
        BY <1>1, <1>3, <1>5, HeadTailProperties
    <2> QED
        BY <1>1, <1>3, <1>4, <1>5, <2>1 DEF StackAdvances
<1>6. CASE ~(Len(longer) > Limit)
    BY <1>1, <1>3, <1>4, <1>6 DEF StackAdvances
<1> QED
    BY <1>5, <1>6

(* What dropping a command leaves, position by position. *)
LEMMA WithoutAt ==
    ASSUME TypeOK, NEW i \in 1 .. Len(stack)
    PROVE  /\ Without(i) \in Seq(Commands)
           /\ Len(Without(i)) = Len(stack) - 1
           /\ \A k \in 1 .. Len(stack) - 1 :
                 Without(i)[k] = stack[IF k < i THEN k ELSE k + 1]
<1> DEFINE front == SubSeq(stack, 1, i - 1)
           back == SubSeq(stack, i + 1, Len(stack))
<1>1. stack \in Seq(Commands) /\ Len(stack) \in Nat
    BY DEF TypeOK
<1>2. /\ front \in Seq(Commands) /\ Len(front) = i - 1
      /\ \A k \in 1 .. i - 1 : front[k] = stack[k]
    BY <1>1
<1>3. /\ back \in Seq(Commands) /\ Len(back) = Len(stack) - i
      /\ \A k \in 1 .. Len(stack) - i : back[k] = stack[i + k]
    BY <1>1
<1>4. Without(i) = front \o back
    BY DEF Without
<1> HIDE DEF front, back
<1>5. /\ front \o back \in Seq(Commands)
      /\ Len(front \o back) = Len(front) + Len(back)
      /\ \A k \in 1 .. Len(front) + Len(back) :
            (front \o back)[k] = IF k <= Len(front) THEN front[k]
                                ELSE back[k - Len(front)]
    BY <1>2, <1>3, ConcatProperties
<1>6. Len(front) + Len(back) = Len(stack) - 1
    BY <1>1, <1>2, <1>3
<1>7. ASSUME NEW k \in 1 .. Len(stack) - 1
      PROVE  Without(i)[k] = stack[IF k < i THEN k ELSE k + 1]
    <2>1. Without(i)[k] = IF k <= i - 1 THEN front[k] ELSE back[k - (i - 1)]
        BY <1>2, <1>4, <1>5, <1>6
    <2>2. CASE k < i
        BY <1>1, <1>2, <2>1, <2>2
    <2>3. CASE ~(k < i)
        <3>1. /\ k - (i - 1) \in 1 .. Len(stack) - i /\ i + (k - (i - 1)) = k + 1
              /\ ~(k <= i - 1)
            BY <1>1, <2>3
        <3>2. back[k - (i - 1)] = stack[k + 1]
            BY <1>3, <3>1
        <3> QED
            BY <2>1, <2>3, <3>1, <3>2
    <2> QED
        BY <2>2, <2>3
<1> QED
    BY <1>4, <1>5, <1>6, <1>7

LEMMA WithoutIs ==
    ASSUME TypeOK, NEW i \in 1 .. Len(stack)
    PROVE  /\ Without(i) \in Seq(Commands)
           /\ Len(Without(i)) = Len(stack) - 1
           /\ \A k \in 1 .. Len(stack) - 1 :
                 \E j \in 1 .. Len(stack) : Without(i)[k] = stack[j]
<1>1. \A k \in 1 .. Len(stack) - 1 :
          (IF k < i THEN k ELSE k + 1) \in 1 .. Len(stack)
    BY DEF TypeOK
<1> QED
    BY <1>1, WithoutAt

-----------------------------------------------------------------------------

(* What every action does. *)
Step == /\ OneAdvances
        /\ \E C \in SUBSET Commands :
              /\ StackAdvances(C)
              /\ \A c \in C : CommandGood(c)'
        /\ \/ begun' = begun
           \/ groups' = groups /\ \E g \in Groups \ begun : begun' = begun \cup {g}
        /\ known' \subseteq begun'
        /\ edits' \subseteq pushed'
        /\ pushed \subseteq pushed' /\ pushed' \subseteq Edits
        /\ failed' \subseteq Groups \cup Edits

LEMMA GroupsAdvance ==
    ASSUME IInv, OneAdvances
    PROVE  /\ groups' \in [Groups -> GroupData]
           /\ \A g \in Groups : GoodData(groups'[g])
           /\ \A g \in Groups : groups[g].committed => groups'[g].committed
           /\ \A g \in Groups \ begun : groups'[g] = groups[g]
<1>1. groups \in [Groups -> GroupData] /\ begun \subseteq Groups
      /\ \A g \in Groups : GoodData(groups[g])
    BY DEF IInv, TypeOK
<1>2. CASE groups' = groups
    BY <1>1, <1>2
<1>3. ASSUME NEW g \in begun, groups' = [groups EXCEPT ![g] = groups'[g]],
             Advances(groups[g], groups'[g])
      PROVE  /\ groups' \in [Groups -> GroupData]
             /\ \A h \in Groups : GoodData(groups'[h])
             /\ \A h \in Groups : groups[h].committed => groups'[h].committed
             /\ \A h \in Groups \ begun : groups'[h] = groups[h]
    <2>1. /\ groups'[g] \in GroupData /\ GoodData(groups'[g])
          /\ groups[g].committed => groups'[g].committed
        BY <1>3 DEF Advances, GoodData
    <2>2. \A h \in Groups : h # g => groups'[h] = groups[h]
        BY <1>1, <1>3
    <2> QED
        BY <1>1, <1>3, <2>1, <2>2
<1> QED
    BY <1>2, <1>3 DEF OneAdvances

LEMMA StepGood ==
    ASSUME IInv, Step
    PROVE  IInv'
<1>1. begun \subseteq begun' /\ begun' \subseteq Groups
    BY DEF Step, IInv, TypeOK
<1>2. PICK C \in SUBSET Commands : StackAdvances(C) /\ \A c \in C : CommandGood(c)'
    BY DEF Step
<1>3. TypeOK'
    BY <1>1, <1>2, GroupsAdvance DEF Step, StackAdvances, TypeOK
<1>4. \A g \in Groups \ begun' : groups'[g] = NewGroup
    BY <1>1, GroupsAdvance DEF Step, IInv
<1> DEFINE Good(c) == /\ c.kind = "edit" => c.of \in pushed'
                      /\ c.kind # "edit" => c.of \in begun' /\ groups'[c.of].committed
<1>5. ASSUME NEW i \in 1 .. Len(stack')
      PROVE  Good(stack'[i])
    <2>1. ASSUME stack'[i] \in C
          PROVE  Good(stack'[i])
        BY <1>2, <2>1 DEF CommandGood
    <2>2. ASSUME NEW j \in 1 .. Len(stack), stack'[i] = stack[j]
          PROVE  Good(stack'[i])
        <3>1. CommandGood(stack[j]) /\ begun \subseteq Groups
            BY DEF IInv, CommandsGood, TypeOK
        <3> QED
            BY <1>1, <2>2, <3>1, GroupsAdvance DEF Step, CommandGood
    <2> QED
        BY <1>2, <2>1, <2>2 DEF StackAdvances
<1>6. CommandsGood'
    BY <1>5 DEF CommandsGood, CommandGood
<1>7. \A g \in Groups : GoodData(groups'[g])
    BY GroupsAdvance DEF Step
<1>8. \A g \in Groups : GoodData(groups[g])'
    BY <1>7 DEF GoodData, InEffect
<1> QED
    BY <1>3, <1>4, <1>6, <1>8 DEF IInv

status == [g \in Groups |-> StatusOf(g)]

(* Every step is one of AtomicChange's, or changes nothing it knows. *)
LEMMA StepRefines ==
    ASSUME IInv, Step
    PROVE  [Change!Next]_status
<1>1. /\ groups \in [Groups -> GroupData] /\ begun \subseteq Groups
      /\ \A g \in Groups : GoodData(groups[g])
      /\ \A g \in Groups \ begun : groups[g] = NewGroup
    BY DEF IInv, TypeOK
<1>2. CASE groups' = groups /\ begun' = begun
    <2>1. \A g \in Groups : StatusOf(g)' = StatusOf(g)
        BY <1>2 DEF StatusOf, InEffect
    <2> QED
        BY <2>1 DEF status
<1>3. ASSUME groups' = groups, NEW g \in Groups \ begun, begun' = begun \cup {g}
      PROVE  Change!Next
    <2>1. StatusOf(g) = "none"
        BY DEF StatusOf
    <2>2. StatusOf(g)' = "open"
        BY <1>1, <1>3, NewGroupGood DEF StatusOf, InEffect, NewGroup
    <2>3. \A h \in Groups : h # g => StatusOf(h)' = StatusOf(h)
        BY <1>3 DEF StatusOf, InEffect
    <2>4. Change!Begin(g)
        BY <2>1, <2>2, <2>3 DEF Change!Begin
    <2> QED
        BY <2>4 DEF Change!Next
<1>4. ASSUME begun' = begun, NEW g \in begun,
             groups' = [groups EXCEPT ![g] = groups'[g]],
             Advances(groups[g], groups'[g])
      PROVE  [Change!Next]_status
    <2> DEFINE d == groups[g]
               e == groups'[g]
    <2>1. \A h \in Groups : h # g => StatusOf(h)' = StatusOf(h)
        BY <1>1, <1>4 DEF StatusOf, InEffect
    <2>2. GoodData(d) /\ GoodData(e) /\ g \in Groups
        BY <1>1, <1>4 DEF Advances
    <2>3. StatusOf(g) = IF d.error THEN "broken" ELSE IF ~d.committed THEN "open"
                        ELSE IF d.applied THEN "in" ELSE "out"
        BY <1>4, <2>2 DEF StatusOf, GoodData
    <2>4. StatusOf(g)' = IF e.error THEN "broken" ELSE IF ~e.committed THEN "open"
                         ELSE IF e.applied THEN "in" ELSE "out"
        BY <1>4, <2>2 DEF StatusOf, GoodData, InEffect
    <2>5. status' = [status EXCEPT ![g] = StatusOf(g)']
        BY <2>1, <2>2 DEF status
    <2>6. \/ StatusOf(g)' = StatusOf(g)
          \/ StatusOf(g)' = "broken"
          \/ StatusOf(g) = "open" /\ StatusOf(g)' = "in"
          \/ StatusOf(g) = "in" /\ StatusOf(g)' = "out"
          \/ StatusOf(g) = "out" /\ StatusOf(g)' = "in"
        BY <1>4, <2>2, <2>3, <2>4 DEF Advances, GoodData
    <2>7. StatusOf(g) # "none" /\ status[g] = StatusOf(g)
        BY <2>2, <2>3 DEF status
    <2>8. CASE StatusOf(g)' = StatusOf(g)
        BY <2>5, <2>7, <2>8 DEF status
    <2>9. CASE StatusOf(g)' = "broken"
        BY <2>2, <2>5, <2>7, <2>9 DEF Change!Next, Change!Break, status
    <2>10. CASE StatusOf(g) = "open" /\ StatusOf(g)' = "in"
        BY <2>2, <2>5, <2>7, <2>10 DEF Change!Next, Change!Close, status
    <2>11. CASE StatusOf(g) = "in" /\ StatusOf(g)' = "out"
        BY <2>2, <2>5, <2>7, <2>11 DEF Change!Next, Change!TakeOut, status
    <2>12. CASE StatusOf(g) = "out" /\ StatusOf(g)' = "in"
        BY <2>2, <2>5, <2>7, <2>12 DEF Change!Next, Change!PutBack, status
    <2> QED
        BY <2>6, <2>8, <2>9, <2>10, <2>11, <2>12
<1> QED
    BY <1>2, <1>3, <1>4 DEF Step, OneAdvances

-----------------------------------------------------------------------------

(* The parts of a step that leaves some of the state alone. *)
LEMMA StackStays ==
    ASSUME IInv, UNCHANGED history
    PROVE  StackAdvances({})
BY DEF IInv, TypeOK, history, StackAdvances

LEMMA GroupAdvances ==
    ASSUME IInv, NEW g \in begun, NEW d, Advances(groups[g], d),
           groups' = [groups EXCEPT ![g] = d]
    PROVE  OneAdvances
<1>1. groups'[g] = d
    BY DEF IInv, TypeOK
<1> QED
    BY <1>1 DEF OneAdvances

LEMMA ExecuteGroupAdvances ==
    ASSUME IInv, NEW g \in begun, groups[g].committed, NEW redo \in BOOLEAN,
           NEW ok \in BOOLEAN, ExecuteGroup(g, redo, ok)
    PROVE  /\ OneAdvances /\ groups'[g].committed
           /\ UNCHANGED <<begun, known, edits, pushed>>
           /\ failed' \subseteq Groups \cup Edits
<1>1. PICK outcome \in Executed(groups[g], redo) :
          groups' = [groups EXCEPT ![g] = outcome.data]
    BY DEF ExecuteGroup
<1>2. GoodData(groups[g]) /\ g \in Groups /\ groups \in [Groups -> GroupData]
    BY DEF IInv, TypeOK
<1>3. Advances(groups[g], outcome.data)
    BY <1>2, ExecutedAdvances
<1>4. OneAdvances
    BY <1>1, <1>3, GroupAdvances
<1>5. groups'[g].committed
    BY <1>1, <1>2, <1>3 DEF Advances
<1> QED
    BY <1>2, <1>4, <1>5 DEF ExecuteGroup, registry, single, IInv, TypeOK

LEMMA BeginStep ==
    ASSUME IInv, NEW g \in Groups, UndoGroupBegin(g)
    PROVE  Step
<1>1. StackAdvances({})
    BY StackStays DEF UndoGroupBegin
<1>2. OneAdvances
    BY DEF UndoGroupBegin, OneAdvances
<1> QED
    BY <1>1, <1>2 DEF UndoGroupBegin, Step, IInv, TypeOK, single

LEMMA Appended ==
    ASSUME NEW b \in Seq(BOOLEAN)
    PROVE  /\ Append(b, TRUE) \in Seq(BOOLEAN)
           /\ Len(Append(b, TRUE)) = Len(b) + 1
           /\ \A i \in 1 .. Len(b) : Append(b, TRUE)[i] = b[i]
           /\ Append(b, TRUE)[Len(b) + 1] = TRUE
<1>1. TRUE \in BOOLEAN
    OBVIOUS
<1> QED
    BY ONLY <1>1, AppendProperties, b \in Seq(BOOLEAN)

LEMMA PushStepStep ==
    ASSUME IInv, NEW g \in Groups, PushStep(g)
    PROVE  Step
<1> DEFINE d == groups[g]
           s == Append(d.steps, TRUE)
           e == [d EXCEPT !.steps = s]
<1>1. StackAdvances({})
    BY StackStays DEF PushStep
<1>2. GoodData(d) /\ d \in GroupData /\ g \in begun /\ ~d.committed
    BY DEF IInv, TypeOK, PushStep, GoodData
<1>3. d.steps \in Seq(BOOLEAN) /\ Len(d.steps) \in Nat
    BY <1>2 DEF GroupData
<1>4. /\ s \in Seq(BOOLEAN) /\ Len(s) = Len(d.steps) + 1
      /\ \A i \in 1 .. Len(d.steps) : s[i] = d.steps[i]
      /\ s[Len(d.steps) + 1] = TRUE
    BY <1>3, Appended
<1>5. groups' = [groups EXCEPT ![g] = e]
    BY <1>2 DEF PushStep, IInv, TypeOK
<1> HIDE DEF s
<1>6. /\ e \in GroupData
      /\ e.steps = s /\ e.applied = d.applied
      /\ e.error = d.error /\ e.committed = d.committed
    BY <1>2, <1>4 DEF GroupData
<1>7. ASSUME ~e.error
      PROVE  InEffect(e)
    <2>1. d.applied = TRUE /\ \A i \in 1 .. Len(d.steps) : d.steps[i] = d.applied
        BY <1>2, <1>6, <1>7 DEF GoodData, InEffect, GroupData
    <2>2. \A i \in 1 .. Len(d.steps) + 1 : s[i] = TRUE
        BY <1>3, <1>4, <2>1
    <2> QED
        BY <1>4, <1>6, <2>1, <2>2 DEF InEffect
<1> HIDE DEF d, e
<1>8. \A i \in 1 .. Len(d.steps) : e.steps[i] = d.steps[i]
    BY <1>4, <1>6
<1>9. Advances(d, e)
    BY <1>2, <1>6, <1>7, <1>8 DEF Advances, GoodData
<1>10. OneAdvances
    BY <1>2, <1>5, <1>9, GroupAdvances DEF d
<1> QED
    BY <1>1, <1>10 DEF PushStep, Step, IInv, TypeOK, single, registry

(* Only the committed and error flags of a group change. *)
LEMMA FlagAdvances ==
    ASSUME NEW d, GoodData(d), NEW e,
           \/ ~d.committed /\ e = [d EXCEPT !.committed = TRUE]
           \/ e = [d EXCEPT !.error = TRUE]
    PROVE  Advances(d, e)
<1>1. d \in GroupData
    BY DEF GoodData
<1>2. CASE ~d.committed /\ e = [d EXCEPT !.committed = TRUE]
    <2>1. e \in GroupData /\ e.steps = d.steps /\ e.applied = d.applied
          /\ e.error = d.error /\ e.committed = TRUE
        BY <1>1, <1>2 DEF GroupData
    <2> QED
        BY <1>2, <2>1 DEF Advances, GoodData, InEffect
<1>3. CASE e = [d EXCEPT !.error = TRUE]
    <2>1. e \in GroupData /\ e.steps = d.steps /\ e.applied = d.applied
          /\ e.error = TRUE /\ e.committed = d.committed
        BY <1>1, <1>3 DEF GroupData
    <2> QED
        BY <1>3, <2>1 DEF Advances, GoodData, InEffect
<1> QED
    BY <1>2, <1>3

LEMMA CommitStep ==
    ASSUME IInv, NEW g \in Groups, UndoGroupCommit(g)
    PROVE  Step
<1> DEFINE e == [groups[g] EXCEPT !.committed = TRUE]
           c == [kind |-> "commit", of |-> g]
<1>1. GoodData(groups[g]) /\ g \in begun /\ begun \subseteq Groups /\ ~groups[g].committed
    BY DEF IInv, TypeOK, UndoGroupCommit
<1>2. groups' = [groups EXCEPT ![g] = e] /\ groups \in [Groups -> GroupData]
    BY DEF IInv, TypeOK, UndoGroupCommit
<1>3. Advances(groups[g], e)
    BY <1>1, FlagAdvances
<1>4. OneAdvances
    BY <1>1, <1>2, <1>3, GroupAdvances
<1>5. UNCHANGED <<begun, edits, pushed, failed>> /\ known' \subseteq known
    BY DEF UndoGroupCommit, single
<1>6. CASE UNCHANGED history
    <2>1. StackAdvances({})
        BY <1>6, StackStays
    <2> QED
        BY <1>4, <1>5, <2>1 DEF Step, IInv, TypeOK
<1>7. CASE Pushed(c, TRUE)
    <2>1. c \in Commands
        BY DEF Commands
    <2>2. StackAdvances({c})
        BY <1>7, <2>1, PushedAdvances DEF IInv
    <2>3. groups'[g].committed
        BY <1>1, <1>2 DEF GroupData
    <2>4. \A b \in {c} : CommandGood(b)'
        BY <1>1, <1>5, <2>3 DEF CommandGood
    <2> HIDE DEF c
    <2> QED
        BY <1>4, <1>5, <2>1, <2>2, <2>4 DEF Step, IInv, TypeOK
<1> QED
    BY <1>6, <1>7 DEF UndoGroupCommit

LEMMA RevertStep ==
    ASSUME IInv, NEW g \in Groups, NEW ok \in BOOLEAN, UndoGroupRevert(g, ok)
    PROVE  Step
<1> DEFINE c == [kind |-> "revert", of |-> g]
<1>1. g \in begun /\ groups[g].committed /\ ExecuteGroup(g, FALSE, ok) /\ Pushed(c, ok)
    BY DEF IInv, TypeOK, UndoGroupRevert
<1>2. /\ OneAdvances /\ groups'[g].committed
      /\ UNCHANGED <<begun, known, edits, pushed>>
      /\ failed' \subseteq Groups \cup Edits
    BY <1>1, ExecuteGroupAdvances
<1>3. c \in Commands
    BY DEF Commands
<1>4. StackAdvances({c})
    BY <1>1, <1>3, PushedAdvances DEF IInv
<1>5. \A b \in {c} : CommandGood(b)'
    BY <1>1, <1>2 DEF CommandGood
<1> HIDE DEF c
<1> QED
    BY <1>2, <1>3, <1>4, <1>5 DEF Step, IInv, TypeOK

LEMMA ReleaseStep ==
    ASSUME IInv, NEW g \in Groups, UndoGroupRelease(g)
    PROVE  Step
<1>1. StackAdvances({})
    BY StackStays DEF UndoGroupRelease
<1>2. OneAdvances
    BY DEF UndoGroupRelease, OneAdvances
<1> QED
    BY <1>1, <1>2 DEF UndoGroupRelease, Step, IInv, TypeOK, single

LEMMA InvalidateStep ==
    ASSUME IInv, NEW g \in Groups, UndoGroupInvalidate(g)
    PROVE  Step
<1> DEFINE e == [groups[g] EXCEPT !.error = TRUE]
<1>1. GoodData(groups[g]) /\ g \in begun
    BY DEF IInv, TypeOK, UndoGroupInvalidate
<1>2. groups' = [groups EXCEPT ![g] = e]
    BY DEF IInv, TypeOK, UndoGroupInvalidate
<1>3. Advances(groups[g], e)
    BY <1>1, FlagAdvances
<1>4. OneAdvances
    BY <1>1, <1>2, <1>3, GroupAdvances
<1>5. StackAdvances({})
    BY StackStays DEF UndoGroupInvalidate
<1> QED
    BY <1>4, <1>5 DEF UndoGroupInvalidate, Step, IInv, TypeOK, single, registry

LEMMA PushEditStep ==
    ASSUME IInv, NEW x \in Edits, NEW ok \in BOOLEAN, PushEdit(x, ok)
    PROVE  Step
<1> DEFINE c == [kind |-> "edit", of |-> x]
<1>1. c \in Commands
    BY DEF Commands
<1>2. StackAdvances({c})
    BY <1>1, PushedAdvances DEF PushEdit, IInv
<1>3. \A b \in {c} : CommandGood(b)'
    BY DEF CommandGood, PushEdit
<1>4. OneAdvances
    BY DEF PushEdit, OneAdvances
<1>5. /\ edits' \subseteq pushed' /\ pushed' \subseteq Edits
      /\ failed' \subseteq Groups \cup Edits
    BY DEF PushEdit, IInv, TypeOK
<1> HIDE DEF c
<1> QED
    BY <1>1, <1>2, <1>3, <1>4, <1>5 DEF PushEdit, Step, IInv, TypeOK, registry

LEMMA SetIndexStep ==
    ASSUME IInv, NEW target, SetIndex(target)
    PROVE  Step
<1>1. StackAdvances({})
    BY DEF SetIndex, IInv, TypeOK, StackAdvances
<1>2. OneAdvances
    BY DEF SetIndex, OneAdvances
<1> QED
    BY <1>1, <1>2 DEF SetIndex, Step, IInv, TypeOK, single, registry

LEMMA ExecuteAdvances ==
    ASSUME IInv, NEW i \in 1 .. Len(stack), NEW redo \in BOOLEAN, NEW ok \in BOOLEAN,
           Execute(stack[i], redo, ok)
    PROVE  /\ OneAdvances
           /\ UNCHANGED <<begun, known, pushed>>
           /\ edits' \subseteq pushed
           /\ failed' \subseteq Groups \cup Edits
<1>1. stack[i] \in Commands /\ CommandGood(stack[i])
    BY DEF IInv, TypeOK, CommandsGood
<1>2. CASE stack[i].kind = "edit" /\ ExecuteEdit(stack[i].of, redo, ok)
    <2>1. stack[i].of \in Edits
        BY <1>1, <1>2 DEF Commands
    <2>2. stack[i].of \in pushed
        BY <1>1, <1>2 DEF CommandGood
    <2> QED
        BY <1>2, <2>1, <2>2 DEF ExecuteEdit, OneAdvances, IInv, TypeOK, registry
<1>3. CASE stack[i].kind # "edit"
    <2>1. stack[i].of \in begun /\ groups[stack[i].of].committed
        BY <1>1, <1>3 DEF CommandGood
    <2>2. PICK r \in BOOLEAN : ExecuteGroup(stack[i].of, r, ok)
        BY <1>3 DEF Execute
    <2> QED
        BY <2>1, <2>2, ExecuteGroupAdvances DEF IInv, TypeOK
<1> QED
    BY <1>2, <1>3 DEF Execute

LEMMA StepBackStep ==
    ASSUME IInv, NEW ok \in BOOLEAN, StepBack(ok)
    PROVE  Step
<1>1. /\ stack \in Seq(Commands) /\ Len(stack) \in Nat /\ Len(stack) <= Limit
      /\ index \in 0 .. Len(stack) /\ goal \in 0 .. Len(stack) /\ goal < index
      /\ Limit \in Nat
    BY UndoAssumption DEF IInv, TypeOK, StepBack
<1>2. index \in 1 .. Len(stack)
    BY <1>1
<1>3. /\ OneAdvances
      /\ UNCHANGED <<begun, known, pushed>>
      /\ edits' \subseteq pushed
      /\ failed' \subseteq Groups \cup Edits
    BY <1>2, ExecuteAdvances DEF StepBack
<1>4. StackAdvances({})
    <2>1. CASE ok
        BY <1>1, <2>1 DEF StepBack, StackAdvances
    <2>2. CASE ~ok
        <3>1. TypeOK /\ stack' = Without(index)
            BY <2>2 DEF StepBack, IInv
        <3>2. /\ stack' \in Seq(Commands) /\ Len(stack') = Len(stack) - 1
              /\ \A k \in 1 .. Len(stack) - 1 :
                    \E j \in 1 .. Len(stack) : stack'[k] = stack[j]
            BY <1>2, <3>1, WithoutIs
        <3> QED
            BY <1>1, <2>2, <3>2 DEF StepBack, StackAdvances
    <2> QED
        BY <2>1, <2>2
<1> QED
    BY <1>3, <1>4 DEF Step, IInv, TypeOK

LEMMA StepForwardStep ==
    ASSUME IInv, NEW ok \in BOOLEAN, StepForward(ok)
    PROVE  Step
<1>1. /\ stack \in Seq(Commands) /\ Len(stack) \in Nat /\ Len(stack) <= Limit
      /\ index \in 0 .. Len(stack) /\ goal \in 0 .. Len(stack) /\ goal > index
      /\ Limit \in Nat
    BY UndoAssumption DEF IInv, TypeOK, StepForward
<1>2. index + 1 \in 1 .. Len(stack)
    BY <1>1
<1>3. /\ OneAdvances
      /\ UNCHANGED <<begun, known, pushed>>
      /\ edits' \subseteq pushed
      /\ failed' \subseteq Groups \cup Edits
    BY <1>2, ExecuteAdvances DEF StepForward
<1>4. StackAdvances({})
    <2>1. CASE ok
        BY <1>1, <2>1 DEF StepForward, StackAdvances
    <2>2. CASE ~ok
        <3>1. TypeOK /\ stack' = Without(index + 1)
            BY <2>2 DEF StepForward, IInv
        <3>2. /\ stack' \in Seq(Commands) /\ Len(stack') = Len(stack) - 1
              /\ \A k \in 1 .. Len(stack) - 1 :
                    \E j \in 1 .. Len(stack) : stack'[k] = stack[j]
            BY <1>2, <3>1, WithoutIs
        <3> QED
            BY <1>1, <2>2, <3>2 DEF StepForward, StackAdvances
    <2> QED
        BY <2>1, <2>2
<1> QED
    BY <1>3, <1>4 DEF Step, IInv, TypeOK

LEMMA IdleStep ==
    ASSUME IInv, UNCHANGED vars
    PROVE  Step
<1>1. StackAdvances({})
    BY StackStays DEF vars
<1>2. OneAdvances
    BY DEF vars, OneAdvances
<1> QED
    BY <1>1, <1>2 DEF vars, Step, IInv, TypeOK, single, registry

LEMMA EveryStep == IInv /\ [Next]_vars => Step
BY BeginStep, PushStepStep, CommitStep, RevertStep, ReleaseStep, InvalidateStep,
   PushEditStep, SetIndexStep, StepBackStep, StepForwardStep, IdleStep DEF Next

LEMMA Initially == Init => IInv /\ Change!Init
<1> SUFFICES ASSUME Init
             PROVE  IInv /\ Change!Init
    OBVIOUS
<1>1. << >> \in Seq(Commands) /\ Len(<< >>) = 0
    OBVIOUS
<1>2. TypeOK
    BY <1>1, NewGroupGood, UndoAssumption DEF Init, TypeOK, GoodData
<1>3. CommandsGood
    BY <1>1 DEF Init, CommandsGood
<1>4. \A g \in Groups : StatusOf(g) = "none"
    BY DEF Init, StatusOf
<1>5. Change!Init
    BY <1>4 DEF Change!Init
<1> QED
    BY <1>2, <1>3, <1>5, NewGroupGood DEF Init, IInv

-----------------------------------------------------------------------------
(***************************************************************************)
(* The history tells the truth.                                            *)
(***************************************************************************)

(* What the stack says of x: a commit stands below its revert, and what    *)
(* the command of x next to the index says of it is so.                    *)
Told(x) ==
    /\ \A i, j \in 1 .. Len(stack) :
          i < j /\ stack[i].of = x /\ stack[j].of = x =>
              stack[i].kind = "commit" /\ stack[j].kind = "revert"
    /\ \A i \in 1 .. Len(stack) : stack[i].of = x =>
          /\ i <= index /\ stack[i].kind = "revert" => ~Effective(x)
          /\ index < i /\ stack[i].kind # "revert" => ~Effective(x)
          /\ i <= index /\ stack[i].kind # "revert" =>
                \/ Effective(x)
                \/ \E j \in 1 .. index : stack[j].of = x /\ stack[j].kind = "revert"
          /\ index < i /\ stack[i].kind = "revert" =>
                \/ Effective(x)
                \/ \E j \in index + 1 .. Len(stack) :
                      stack[j].of = x /\ stack[j].kind # "revert"

AllTold == \A x \in (Groups \cup Edits) \ failed : Told(x)

(* The commands of x stay where they are relative to the index: f says     *)
(* where each was.  Only the oldest one may be gone, or all the undone     *)
(* ones.                                                                   *)
Stays(x, f) ==
    /\ \A k \in 1 .. Len(stack') : stack'[k].of = x =>
          /\ f[k] \in 1 .. Len(stack) /\ stack'[k] = stack[f[k]]
          /\ k <= index' <=> f[k] <= index
    /\ \A k, m \in 1 .. Len(stack') :
          stack'[k].of = x /\ stack'[m].of = x /\ k < m => f[k] < f[m]
    /\ \A j \in 1 .. Len(stack) : stack[j].of = x =>
          \/ \E k \in 1 .. Len(stack') : stack'[k].of = x /\ f[k] = j
          \/ index < j /\ index' = Len(stack')
          \/ j = 1 /\ 1 <= index

(* A step in which they stay keeps what the stack says of x.               *)
LEMMA ToldKept ==
    ASSUME TypeOK, NEW x, Told(x), Effective(x)' <=> Effective(x),
           stack' \in Seq(Commands), index' \in 0 .. Len(stack'),
           \E f : Stays(x, f)
    PROVE  Told(x)'
<1> PICK f : Stays(x, f)
    OBVIOUS
<1> USE DEF Stays
<1> DEFINE new == stack'
           at == index'
<1>1. /\ Len(stack) \in Nat /\ index \in Nat /\ Len(new) \in Nat /\ at \in Nat
      /\ index <= Len(stack) /\ at <= Len(new)
    BY DEF TypeOK
<1>2. ASSUME NEW i \in 1 .. Len(new), NEW j \in 1 .. Len(new), i < j,
             new[i].of = x, new[j].of = x
      PROVE  new[i].kind = "commit" /\ new[j].kind = "revert"
    <2>1. /\ f[i] \in 1 .. Len(stack) /\ new[i] = stack[f[i]]
          /\ f[j] \in 1 .. Len(stack) /\ new[j] = stack[f[j]] /\ f[i] < f[j]
        BY <1>2
    <2> QED
        BY <1>2, <2>1 DEF Told
<1>3. ASSUME NEW i \in 1 .. Len(new), new[i].of = x
      PROVE  /\ i <= at /\ new[i].kind = "revert" => ~Effective(x)
             /\ at < i /\ new[i].kind # "revert" => ~Effective(x)
             /\ i <= at /\ new[i].kind # "revert" =>
                   \/ Effective(x)
                   \/ \E j \in 1 .. at : new[j].of = x /\ new[j].kind = "revert"
             /\ at < i /\ new[i].kind = "revert" =>
                   \/ Effective(x)
                   \/ \E j \in at + 1 .. Len(new) : new[j].of = x /\ new[j].kind # "revert"
    <2>1. /\ f[i] \in 1 .. Len(stack) /\ new[i] = stack[f[i]]
          /\ i <= at <=> f[i] <= index
          /\ stack[f[i]].of = x /\ f[i] \in Nat
        BY <1>3
    <2>2. (i <= at \/ at < i) /\ (f[i] <= index \/ index < f[i])
        BY <1>1, <2>1
    <2>3. at < i => index < f[i]
        BY <1>1, <2>1
    <2>4. i <= at /\ new[i].kind = "revert" => ~Effective(x)
        BY <2>1 DEF Told
    <2>5. at < i /\ new[i].kind # "revert" => ~Effective(x)
        BY <2>1, <2>3 DEF Told
    <2>6. ASSUME i <= at, new[i].kind # "revert", ~Effective(x)
          PROVE  \E j \in 1 .. at : new[j].of = x /\ new[j].kind = "revert"
        <3>1. PICK j \in 1 .. index : stack[j].of = x /\ stack[j].kind = "revert"
            BY <2>1, <2>6 DEF Told
        <3>2. j \in 1 .. Len(stack) /\ j <= index
            BY <1>1
        <3>3. ~(j = 1)
            <4>1. SUFFICES ASSUME j = 1 PROVE FALSE
                OBVIOUS
            <4>2. f[i] # 1
                BY <2>1, <2>6, <3>1, <4>1
            <4>3. 1 < f[i]
                BY <2>1, <4>2
            <4> QED
                BY <2>1, <3>1, <3>2, <4>1, <4>3 DEF Told
        <3>4. PICK k \in 1 .. Len(new) : new[k].of = x /\ f[k] = j
            BY <1>1, <3>1, <3>2, <3>3
        <3>5. new[k] = stack[j] /\ k <= at
            BY <3>2, <3>4
        <3> QED
            BY <1>1, <3>1, <3>4, <3>5
    <2>7. ASSUME at < i, new[i].kind = "revert", ~Effective(x)
          PROVE  \E j \in at + 1 .. Len(new) : new[j].of = x /\ new[j].kind # "revert"
        <3>1. PICK j \in index + 1 .. Len(stack) : stack[j].of = x /\ stack[j].kind # "revert"
            BY <2>1, <2>3, <2>7 DEF Told
        <3>2. j \in 1 .. Len(stack) /\ index < j
            BY <1>1
        <3>3. at < Len(new)
            BY <1>1, <2>7
        <3>4. PICK k \in 1 .. Len(new) : new[k].of = x /\ f[k] = j
            BY <1>1, <3>1, <3>2, <3>3
        <3>5. new[k] = stack[j]
            BY <3>4
        <3>6. k \in at + 1 .. Len(new)
            <4>1. ~(k <= at)
                BY <1>1, <3>2, <3>4
            <4> HIDE DEF new, at
            <4> QED
                BY <1>1, <4>1
        <3> QED
            BY <3>1, <3>4, <3>5, <3>6
    <2> QED
        BY <2>4, <2>5, <2>6, <2>7
<1> QED
    BY <1>2, <1>3 DEF Told

(* The commands of x stay as they are. *)
LEMMA ToldSame ==
    ASSUME TypeOK, NEW x, Told(x), Effective(x)' <=> Effective(x),
           stack' = stack, index' = index
    PROVE  Told(x)'
BY DEF Told

(* What push leaves: the done commands, s of them fallen off the bottom,   *)
(* and on top the new one unless it was refused.                           *)
LEMMA PushedIs ==
    ASSUME TypeOK, NEW c \in Commands, NEW ok \in BOOLEAN, Pushed(c, ok)
    PROVE  \E s \in {0, 1} :
              /\ s <= index /\ stack' \in Seq(Commands) /\ index' = Len(stack')
              /\ Len(stack') = IF ok THEN index - s + 1 ELSE index - s
              /\ \A k \in 1 .. index - s : stack'[k] = stack[k + s]
              /\ ok => stack'[index - s + 1] = c
<1> DEFINE below == SubSeq(stack, 1, index)
           longer == IF ok THEN Append(below, c) ELSE below
<1>1. stack \in Seq(Commands) /\ Len(stack) \in Nat /\ Len(stack) <= Limit
      /\ index \in 0 .. Len(stack) /\ index \in Nat /\ Limit \in Nat \ {0}
    BY UndoAssumption DEF TypeOK
<1>2. /\ below \in Seq(Commands) /\ Len(below) = index
      /\ \A i \in 1 .. index : below[i] = stack[i]
    BY <1>1
<1>3. stack' = (IF Len(longer) > Limit THEN Tail(longer) ELSE longer)
      /\ index' = Len(stack')
    BY DEF Pushed
<1>4. CASE ~ok
    <2>1. longer = below
        BY <1>4
    <2> HIDE DEF below, longer
    <2>2. stack' = below
        BY <1>1, <1>2, <1>3, <2>1
    <2>3. /\ 0 <= index /\ index - 0 = index
          /\ \A k \in 1 .. index - 0 : stack'[k] = stack[k + 0]
        BY <1>1, <1>2, <2>2
    <2> QED
        BY <1>2, <1>3, <1>4, <2>2, <2>3
<1>5. CASE ok
    <2> HIDE DEF below
    <2>1. longer = Append(below, c)
        BY <1>5
    <2>2. /\ longer \in Seq(Commands) /\ Len(longer) = index + 1
          /\ \A i \in 1 .. index : longer[i] = stack[i]
          /\ longer[index + 1] = c
        BY <1>1, <1>2, <2>1, AppendProperties
    <2> HIDE DEF longer
    <2>3. CASE Len(longer) > Limit
        <3>1. /\ Tail(longer) \in Seq(Commands) /\ Len(Tail(longer)) = index
              /\ \A i \in 1 .. index : Tail(longer)[i] = longer[i + 1]
            BY <1>1, <2>2, <2>3, HeadTailProperties
        <3>2. stack' = Tail(longer)
            BY <1>3, <2>3
        <3>3. index >= 1
            BY <1>1, <2>2, <2>3
        <3>4. /\ 1 <= index /\ index - 1 + 1 = index /\ index \in 1 .. index
              /\ \A k \in 1 .. index - 1 : k \in 1 .. index /\ k + 1 \in 1 .. index
            BY <1>1, <3>3
        <3>5. \A k \in 1 .. index - 1 : stack'[k] = stack[k + 1]
            BY <2>2, <3>1, <3>2, <3>4
        <3>6. stack'[index - 1 + 1] = c
            BY <2>2, <3>1, <3>2, <3>4
        <3> QED
            BY <1>3, <1>5, <3>1, <3>2, <3>4, <3>5, <3>6
    <2>4. CASE ~(Len(longer) > Limit)
        <3>1. stack' = longer
            BY <1>3, <2>4
        <3>2. 0 <= index /\ index - 0 = index
            BY <1>1
        <3>3. \A k \in 1 .. index - 0 : stack'[k] = stack[k + 0]
            BY <1>1, <2>2, <3>1
        <3> QED
            BY <1>3, <1>5, <2>2, <3>1, <3>2, <3>3
    <2> QED
        BY <2>3, <2>4
<1> QED
    BY <1>4, <1>5

(* push, as seen by another change than the one that is pushed. *)
LEMMA PushedTold ==
    ASSUME TypeOK, NEW c \in Commands, NEW ok \in BOOLEAN, Pushed(c, ok),
           NEW x, ok => c.of # x, Told(x), Effective(x)' <=> Effective(x)
    PROVE  Told(x)'
<1>1. PICK s \in {0, 1} :
              /\ s <= index /\ stack' \in Seq(Commands) /\ index' = Len(stack')
              /\ Len(stack') = IF ok THEN index - s + 1 ELSE index - s
              /\ \A k \in 1 .. index - s : stack'[k] = stack[k + s]
              /\ ok => stack'[index - s + 1] = c
    BY PushedIs
<1>2. Len(stack) \in Nat /\ index \in Nat /\ index <= Len(stack) /\ s \in Nat
    BY DEF TypeOK
<1> DEFINE f == [k \in 1 .. Len(stack') |-> k + s]
<1>3. ASSUME NEW k \in 1 .. Len(stack'), stack'[k].of = x
      PROVE  k \in 1 .. index - s
    <2>1. k \in Nat /\ 1 <= k /\ k <= Len(stack')
        BY <1>1, <1>2
    <2>2. k # index - s + 1
        BY <1>1, <1>2, <1>3, <2>1
    <2> QED
        BY <1>1, <1>2, <2>1, <2>2
<1>4. ASSUME NEW k \in 1 .. Len(stack'), stack'[k].of = x
      PROVE  /\ f[k] \in 1 .. Len(stack) /\ stack'[k] = stack[f[k]]
             /\ k <= index' <=> f[k] <= index
    <2>1. k \in 1 .. index - s /\ f[k] = k + s
        BY <1>3, <1>4
    <2>2. k + s \in 1 .. Len(stack) /\ k + s <= index /\ k <= index'
        BY <1>1, <1>2, <2>1
    <2> QED
        BY <1>1, <2>1, <2>2
<1>5. \A k, m \in 1 .. Len(stack') :
          stack'[k].of = x /\ stack'[m].of = x /\ k < m => f[k] < f[m]
    BY <1>2
<1>6. ASSUME NEW j \in 1 .. Len(stack), stack[j].of = x
      PROVE  \/ \E k \in 1 .. Len(stack') : stack'[k].of = x /\ f[k] = j
             \/ index < j /\ index' = Len(stack')
             \/ j = 1 /\ 1 <= index
    <2>1. CASE index < j
        BY <1>1, <2>1
    <2>2. CASE j <= s
        BY <1>1, <1>2, <2>2
    <2>3. CASE j <= index /\ s < j
        <3>1. j - s \in 1 .. index - s /\ j - s \in 1 .. Len(stack') /\ (j - s) + s = j
            BY <1>1, <1>2, <2>3
        <3>2. stack'[j - s] = stack[j] /\ f[j - s] = j
            BY <1>1, <3>1
        <3> QED
            BY <1>6, <3>1, <3>2
    <2> QED
        BY <1>2, <2>1, <2>2, <2>3
<1>7. index' \in 0 .. Len(stack')
    BY <1>1, <1>2
<1> HIDE DEF f
<1> QED
    <2>1. Stays(x, f)
        BY <1>4, <1>5, <1>6 DEF Stays
    <2>2. \E g : Stays(x, g)
        BY <2>1
    <2> QED
        BY <1>1, <1>7, <2>2, ToldKept

(* A command is dropped; the next is below it or above it all the same. *)
LEMMA WithoutTold ==
    ASSUME TypeOK, NEW d \in 1 .. Len(stack), NEW x, stack[d].of # x, Told(x),
           Effective(x)' <=> Effective(x), stack' = Without(d),
           \/ d = index /\ index' = index - 1
           \/ d = index + 1 /\ index' = index
    PROVE  Told(x)'
<1>1. /\ stack \in Seq(Commands) /\ Len(stack) \in Nat /\ index \in Nat
      /\ index <= Len(stack) /\ d \in Nat /\ 1 <= d /\ d <= Len(stack)
    BY DEF TypeOK
<1>2. /\ stack' \in Seq(Commands) /\ Len(stack') = Len(stack) - 1
      /\ \A k \in 1 .. Len(stack) - 1 :
            stack'[k] = stack[IF k < d THEN k ELSE k + 1]
    BY WithoutAt
<1> DEFINE f == [k \in 1 .. Len(stack') |-> IF k < d THEN k ELSE k + 1]
<1>3. ASSUME NEW k \in 1 .. Len(stack'), stack'[k].of = x
      PROVE  /\ f[k] \in 1 .. Len(stack) /\ stack'[k] = stack[f[k]]
             /\ k <= index' <=> f[k] <= index
    <2>1. f[k] = IF k < d THEN k ELSE k + 1
        OBVIOUS
    <2>2. k \in 1 .. Len(stack) - 1
        BY <1>2
    <2> HIDE DEF f
    <2> QED
        BY <1>1, <1>2, <2>1, <2>2
<1>4. \A k, m \in 1 .. Len(stack') :
          stack'[k].of = x /\ stack'[m].of = x /\ k < m => f[k] < f[m]
    BY <1>1, <1>2
<1>5. ASSUME NEW j \in 1 .. Len(stack), stack[j].of = x
      PROVE  \E k \in 1 .. Len(stack') : stack'[k].of = x /\ f[k] = j
    <2>1. j # d
        BY <1>5
    <2>2. CASE j < d
        <3>1. j \in 1 .. Len(stack') /\ j \in 1 .. Len(stack) - 1 /\ f[j] = j
            BY <1>1, <1>2, <2>2
        <3> QED
            BY <1>2, <1>5, <2>2, <3>1
    <2>3. CASE d < j
        <3>1. /\ j - 1 \in 1 .. Len(stack') /\ j - 1 \in 1 .. Len(stack) - 1
              /\ ~(j - 1 < d) /\ (j - 1) + 1 = j
            BY <1>1, <1>2, <2>3
        <3>2. f[j - 1] = j /\ stack'[j - 1] = stack[j]
            BY <1>2, <3>1
        <3> QED
            BY <1>5, <3>1, <3>2
    <2> QED
        BY <1>1, <2>1, <2>2, <2>3
<1>6. index' \in 0 .. Len(stack')
    BY <1>1, <1>2
<1>7. \A j \in 1 .. Len(stack) : stack[j].of = x =>
          \/ \E k \in 1 .. Len(stack') : stack'[k].of = x /\ f[k] = j
          \/ index < j /\ index' = Len(stack')
          \/ j = 1 /\ 1 <= index
    BY <1>5
<1>8. stack' \in Seq(Commands)
    BY <1>2
<1> HIDE DEF f
<1> QED
    <2>1. Stays(x, f)
        BY <1>3, <1>4, <1>7 DEF Stays
    <2>2. \E g : Stays(x, g)
        BY <2>1
    <2> QED
        BY <1>6, <1>8, <2>2, ToldKept

(* Undoing or redoing a group does what it reports, and touches no other.  *)
LEMMA ExecuteGroupEffect ==
    ASSUME IInv, NEW g \in Groups, NEW redo \in BOOLEAN, NEW ok \in BOOLEAN,
           ExecuteGroup(g, redo, ok)
    PROVE  /\ \A x \in Groups \cup Edits : x # g => (Effective(x)' <=> Effective(x))
           /\ ok => (Effective(g)' <=> redo)
           /\ ~ok => g \in failed'
           /\ failed \subseteq failed'
<1>1. PICK outcome \in Executed(groups[g], redo) :
          outcome.ok = ok /\ groups' = [groups EXCEPT ![g] = outcome.data]
    BY DEF ExecuteGroup
<1>2. /\ groups \in [Groups -> GroupData] /\ groups[g] \in GroupData /\ edits' = edits
      /\ failed' = IF ok THEN failed ELSE failed \cup {g}
    BY DEF IInv, TypeOK, ExecuteGroup, single
<1>3. ASSUME NEW x \in Groups \cup Edits, x # g
      PROVE  Effective(x)' <=> Effective(x)
    BY <1>1, <1>2, <1>3 DEF Effective
<1>4. ASSUME ok
      PROVE  Effective(g)' <=> redo
    <2>1. outcome = [data |-> Whole(groups[g], redo), ok |-> TRUE]
        <3>1. outcome.ok = TRUE
            BY <1>1, <1>4
        <3>2. outcome # [data |-> groups[g], ok |-> FALSE]
            BY <3>1
        <3>3. \A k \in 0 .. Len(groups[g].steps) - 1 :
                 \A lost \in SUBSET Ran(groups[g], redo, k) :
                     outcome # [data |-> Compensated(groups[g], redo, lost), ok |-> FALSE]
            BY <3>1
        <3> QED
            BY <1>1, <3>2, <3>3 DEF Executed
    <2>2. groups'[g] = Whole(groups[g], redo)
        BY <1>1, <1>2, <2>1
    <2>3. Whole(groups[g], redo).applied = redo
        BY <1>2 DEF Whole, GroupData
    <2>4. g \notin Edits
        BY UndoAssumption
    <2> QED
        BY <2>2, <2>3, <2>4 DEF Effective
<1> QED
    BY <1>2, <1>3, <1>4

LEMMA ExecuteEffect ==
    ASSUME IInv, NEW c \in Commands, NEW redo \in BOOLEAN, NEW ok \in BOOLEAN,
           Execute(c, redo, ok)
    PROVE  /\ \A x \in Groups \cup Edits :
                 x # c.of => (Effective(x)' <=> Effective(x))
           /\ ok /\ c.kind = "revert" => (Effective(c.of)' <=> ~redo)
           /\ ok /\ c.kind # "revert" => (Effective(c.of)' <=> redo)
           /\ ~ok => c.of \in failed'
           /\ failed \subseteq failed'
<1>1. CASE c.kind = "edit"
    <2>1. c.of \in Edits /\ ExecuteEdit(c.of, redo, ok)
        BY <1>1 DEF Commands, Execute
    <2>2. /\ edits' = IF ~ok THEN edits ELSE IF redo THEN edits \cup {c.of}
                      ELSE edits \ {c.of}
          /\ failed' = IF ok THEN failed ELSE failed \cup {c.of}
          /\ groups' = groups
        BY <2>1 DEF ExecuteEdit
    <2>3. \A x \in Groups \cup Edits : x # c.of => (Effective(x)' <=> Effective(x))
        BY <2>2 DEF Effective
    <2>4. Effective(c.of)' <=> c.of \in edits'
        BY <2>1 DEF Effective
    <2>5. ok => (c.of \in edits' <=> redo)
        BY <2>2
    <2> QED
        BY <1>1, <2>2, <2>3, <2>4, <2>5
<1>2. CASE c.kind = "commit"
    <2>1. c.of \in Groups /\ ExecuteGroup(c.of, redo, ok)
        BY <1>2 DEF Commands, Execute
    <2> QED
        BY <1>2, <2>1, ExecuteGroupEffect
<1>3. CASE c.kind = "revert"
    <2>1. PICK r \in BOOLEAN : r <=> ~redo
        OBVIOUS
    <2>2. c.of \in Groups /\ ExecuteGroup(c.of, ~redo, ok)
        BY <1>3 DEF Commands, Execute
    <2>3. r = ~redo
        BY <2>1
    <2>4. ExecuteGroup(c.of, r, ok)
        BY <2>2, <2>3
    <2> QED
        BY <1>3, <2>1, <2>2, <2>4, ExecuteGroupEffect
<1> QED
    BY <1>1, <1>2, <1>3 DEF Commands

LEMMA StepBackTold ==
    ASSUME IInv, AllTold, NEW ok \in BOOLEAN, StepBack(ok)
    PROVE  AllTold'
<1> PICK c : c = stack[index]
    OBVIOUS
<1>1. /\ index \in 1 .. Len(stack) /\ Len(stack) \in Nat /\ index \in Nat
      /\ stack \in Seq(Commands)
    BY DEF IInv, TypeOK, StepBack
<1>2. /\ TypeOK /\ c \in Commands /\ Execute(c, FALSE, ok) /\ index' = index - 1
      /\ stack' = IF ok THEN stack ELSE Without(index)
    <2>1. /\ TypeOK /\ c \in Commands /\ index' = index - 1
          /\ stack' = IF ok THEN stack ELSE Without(index)
        BY <1>1 DEF IInv, StepBack
    <2>2. Execute(c, FALSE, ok)
        BY DEF StepBack, Execute, ExecuteEdit, ExecuteGroup
    <2> QED
        BY <2>1, <2>2
<1>3. failed \subseteq failed' /\ (~ok => c.of \in failed')
    BY <1>2, ExecuteEffect
<1> SUFFICES ASSUME NEW x \in (Groups \cup Edits) \ failed'
             PROVE  Told(x)'
    BY DEF AllTold
<1>4. Told(x)
    BY <1>3 DEF AllTold
<1>5. CASE ~ok
    <2>1. c.of # x /\ stack[index].of # x /\ stack' = Without(index)
        BY <1>2, <1>3, <1>5
    <2>2. Effective(x)' <=> Effective(x)
        BY <1>2, <2>1, ExecuteEffect
    <2> QED
        BY <1>1, <1>2, <1>4, <2>1, <2>2, WithoutTold
<1>6. CASE ok /\ c.of # x
    <2>1. Effective(x)' <=> Effective(x)
        BY <1>2, <1>6, ExecuteEffect
    <2> DEFINE f == [k \in 1 .. Len(stack') |-> k]
    <2>2. stack' = stack /\ index' \in 0 .. Len(stack') /\ stack' \in Seq(Commands)
        BY <1>1, <1>2, <1>6
    <2>3. \A k \in 1 .. Len(stack') : stack'[k].of = x =>
               /\ f[k] \in 1 .. Len(stack) /\ stack'[k] = stack[f[k]]
               /\ k <= index' <=> f[k] <= index
        BY <1>1, <1>2, <1>6, <2>2
    <2>4. \A k, m \in 1 .. Len(stack') :
               stack'[k].of = x /\ stack'[m].of = x /\ k < m => f[k] < f[m]
        OBVIOUS
    <2>5. \A j \in 1 .. Len(stack) : stack[j].of = x =>
               \/ \E k \in 1 .. Len(stack') : stack'[k].of = x /\ f[k] = j
               \/ index < j /\ index' = Len(stack')
               \/ j = 1 /\ 1 <= index
        BY <2>2
    <2> HIDE DEF f
    <2> QED
        <3>1. Stays(x, f)
            BY <2>3, <2>4, <2>5 DEF Stays
        <3>2. \E g : Stays(x, g)
            BY <3>1
        <3> QED
            BY <1>2, <1>4, <2>1, <2>2, <3>2, ToldKept
<1>7. CASE ok /\ c.of = x
    <2>1. /\ stack' = stack
          /\ stack[index].kind = "revert" => Effective(x)'
          /\ stack[index].kind # "revert" => ~Effective(x)'
        BY <1>2, <1>7, ExecuteEffect
    <2>2. \A j \in 1 .. Len(stack) : stack[j].of = x =>
              /\ j < index => stack[j].kind = "commit" /\ stack[index].kind = "revert"
              /\ index < j => stack[index].kind = "commit" /\ stack[j].kind = "revert"
        BY <1>1, <1>4, <1>7 DEF Told
    <2>3. \A i, j \in 1 .. Len(stack) :
              i < j /\ stack[i].of = x /\ stack[j].of = x =>
                  stack[i].kind = "commit" /\ stack[j].kind = "revert"
        BY <1>4 DEF Told
    <2>4. ASSUME NEW i \in 1 .. Len(stack), stack[i].of = x
          PROVE  /\ i <= index - 1 => stack[i].kind = "commit" /\ Effective(x)'
                 /\ index - 1 < i /\ stack[i].kind # "revert" => ~Effective(x)'
                 /\ index - 1 < i /\ stack[i].kind = "revert" =>
                       Effective(x)' \/ stack[index].kind # "revert"
        <3>1. i \in Nat /\ (i <= index - 1 <=> i < index)
              /\ (index - 1 < i => i = index \/ index < i)
            BY <1>1
        <3>2. index < i => stack[index].kind = "commit" /\ stack[i].kind = "revert"
            BY <2>2, <2>4
        <3>3. i < index => stack[i].kind = "commit" /\ stack[index].kind = "revert"
            BY <2>2, <2>4
        <3> QED
            BY <2>1, <3>1, <3>2, <3>3
    <2>5. index \in (index - 1) + 1 .. Len(stack)
        BY <1>1
    <2> QED
        BY <1>1, <1>2, <1>7, <2>1, <2>3, <2>4, <2>5 DEF Told
<1> QED
    BY <1>5, <1>6, <1>7

LEMMA StepForwardTold ==
    ASSUME IInv, AllTold, NEW ok \in BOOLEAN, StepForward(ok)
    PROVE  AllTold'
<1> DEFINE d == index + 1
<1> PICK c : c = stack[d]
    OBVIOUS
<1>1. /\ d \in 1 .. Len(stack) /\ Len(stack) \in Nat /\ index \in Nat
      /\ stack \in Seq(Commands) /\ TRUE \in BOOLEAN /\ index <= Len(stack)
    BY DEF IInv, TypeOK, StepForward
<1>2. /\ TypeOK /\ c \in Commands /\ Execute(c, TRUE, ok)
      /\ index' = IF ok THEN index + 1 ELSE index
      /\ stack' = IF ok THEN stack ELSE Without(d)
    <2>1. /\ TypeOK /\ c \in Commands
          /\ index' = IF ok THEN index + 1 ELSE index
          /\ stack' = IF ok THEN stack ELSE Without(d)
        BY <1>1 DEF IInv, StepForward
    <2>2. Execute(c, TRUE, ok)
        BY DEF StepForward, Execute, ExecuteEdit, ExecuteGroup
    <2> QED
        BY <2>1, <2>2
<1>3. failed \subseteq failed' /\ (~ok => c.of \in failed')
    BY <1>2, ExecuteEffect
<1> SUFFICES ASSUME NEW x \in (Groups \cup Edits) \ failed'
             PROVE  Told(x)'
    BY DEF AllTold
<1>4. Told(x)
    BY <1>3 DEF AllTold
<1>5. CASE ~ok
    <2>1. c.of # x /\ stack[d].of # x /\ stack' = Without(d) /\ index' = index
        BY <1>2, <1>3, <1>5
    <2>2. Effective(x)' <=> Effective(x)
        BY <1>2, <2>1, ExecuteEffect
    <2> QED
        BY <1>1, <1>2, <1>4, <2>1, <2>2, WithoutTold
<1>6. CASE ok /\ c.of # x
    <2>1. Effective(x)' <=> Effective(x)
        BY <1>2, <1>6, ExecuteEffect
    <2> DEFINE f == [k \in 1 .. Len(stack') |-> k]
    <2>2. stack' = stack /\ index' \in 0 .. Len(stack') /\ stack' \in Seq(Commands)
          /\ index' = index + 1
        BY <1>1, <1>2, <1>6
    <2>3. \A k \in 1 .. Len(stack') : stack'[k].of = x =>
               /\ f[k] \in 1 .. Len(stack) /\ stack'[k] = stack[f[k]]
               /\ k <= index' <=> f[k] <= index
        BY <1>1, <1>2, <1>6, <2>2
    <2>4. \A k, m \in 1 .. Len(stack') :
               stack'[k].of = x /\ stack'[m].of = x /\ k < m => f[k] < f[m]
        OBVIOUS
    <2>5. \A j \in 1 .. Len(stack) : stack[j].of = x =>
               \/ \E k \in 1 .. Len(stack') : stack'[k].of = x /\ f[k] = j
               \/ index < j /\ index' = Len(stack')
               \/ j = 1 /\ 1 <= index
        BY <2>2
    <2> HIDE DEF f
    <2> QED
        <3>1. Stays(x, f)
            BY <2>3, <2>4, <2>5 DEF Stays
        <3>2. \E g : Stays(x, g)
            BY <3>1
        <3> QED
            BY <1>2, <1>4, <2>1, <2>2, <3>2, ToldKept
<1>7. CASE ok /\ c.of = x
    <2>1. /\ stack' = stack /\ index' = d
          /\ stack[d].kind = "revert" => ~Effective(x)'
          /\ stack[d].kind # "revert" => Effective(x)'
        BY <1>2, <1>7, ExecuteEffect
    <2>2. \A j \in 1 .. Len(stack) : stack[j].of = x =>
              /\ j < d => stack[j].kind = "commit" /\ stack[d].kind = "revert"
              /\ d < j => stack[d].kind = "commit" /\ stack[j].kind = "revert"
        BY <1>1, <1>4, <1>7 DEF Told
    <2>3. \A i, j \in 1 .. Len(stack) :
              i < j /\ stack[i].of = x /\ stack[j].of = x =>
                  stack[i].kind = "commit" /\ stack[j].kind = "revert"
        BY <1>4 DEF Told
    <2>4. ASSUME NEW i \in 1 .. Len(stack), stack[i].of = x
          PROVE  /\ i <= d /\ stack[i].kind = "revert" => ~Effective(x)'
                 /\ i <= d /\ stack[i].kind # "revert" =>
                       Effective(x)' \/ stack[d].kind = "revert"
                 /\ d < i => stack[i].kind = "revert" /\ Effective(x)'
        <3>1. d \in Nat /\ i \in Nat /\ (i <= d => i = d \/ i < d)
            BY <1>1
        <3> HIDE DEF d
        <3>2. d < i => stack[d].kind = "commit" /\ stack[i].kind = "revert"
            BY <2>2, <2>4
        <3>3. i < d => stack[i].kind = "commit" /\ stack[d].kind = "revert"
            BY <2>2, <2>4
        <3> QED
            BY <2>1, <3>1, <3>2, <3>3
    <2>5. d \in 1 .. d
        BY <1>1
    <2> HIDE DEF d
    <2> QED
        BY <1>1, <1>2, <1>7, <2>1, <2>3, <2>4, <2>5 DEF Told
<1> QED
    BY <1>5, <1>6, <1>7

(* push, as seen by the change that is pushed. *)
LEMMA PushedOwn ==
    ASSUME TypeOK, NEW c \in Commands, Pushed(c, TRUE), NEW x, c.of = x,
           Effective(x)' <=> c.kind # "revert",
           \A i, j \in 1 .. index : ~(i < j /\ stack[i].of = x /\ stack[j].of = x),
           \A i \in 1 .. index : stack[i].of = x =>
               stack[i].kind = "commit" /\ c.kind = "revert"
    PROVE  Told(x)'
<1>0. TRUE \in BOOLEAN
    OBVIOUS
<1>1. PICK s \in {0, 1} :
              /\ s <= index /\ stack' \in Seq(Commands) /\ index' = Len(stack')
              /\ Len(stack') = index - s + 1
              /\ \A k \in 1 .. index - s : stack'[k] = stack[k + s]
              /\ stack'[index - s + 1] = c
    BY <1>0, PushedIs
<1>2. index \in Nat /\ s \in Nat
    BY DEF TypeOK
<1> DEFINE n == index - s + 1
<1>3. ASSUME NEW i \in 1 .. Len(stack'), stack'[i].of = x, i # n
      PROVE  /\ i + s \in 1 .. index /\ stack'[i] = stack[i + s]
             /\ stack'[i].kind = "commit" /\ c.kind = "revert" /\ i < n
    <2>1. i \in 1 .. index - s /\ i + s \in 1 .. index /\ i < n
        BY <1>1, <1>2, <1>3
    <2>2. stack'[i] = stack[i + s] /\ stack[i + s].of = x
        BY <1>1, <1>3, <2>1
    <2> QED
        BY <2>1, <2>2
<1>4. ASSUME NEW i \in 1 .. Len(stack'), NEW j \in 1 .. Len(stack'), i < j,
             stack'[i].of = x, stack'[j].of = x
      PROVE  stack'[i].kind = "commit" /\ stack'[j].kind = "revert"
    <2>1. i # n
        BY <1>1, <1>2, <1>4
    <2>2. j = n
        <3>1. SUFFICES ASSUME j # n PROVE FALSE
            OBVIOUS
        <3>2. /\ i + s \in 1 .. index /\ stack[i + s].of = x
              /\ j + s \in 1 .. index /\ stack[j + s].of = x
            BY <1>3, <1>4, <2>1, <3>1
        <3>3. i + s < j + s
            BY <1>1, <1>2, <1>4
        <3> QED
            BY <3>2, <3>3
    <2> QED
        BY <1>1, <1>3, <1>4, <2>1, <2>2
<1>5. ASSUME NEW i \in 1 .. Len(stack'), stack'[i].of = x
      PROVE  /\ i <= index'
             /\ stack'[i].kind = "revert" => ~Effective(x)'
             /\ stack'[i].kind # "revert" =>
                   \/ Effective(x)'
                   \/ \E j \in 1 .. index' : stack'[j].of = x /\ stack'[j].kind = "revert"
    <2>1. i <= index' /\ n \in 1 .. index' /\ stack'[n] = c
        BY <1>1, <1>2
    <2>2. CASE i = n
        BY <1>1, <2>1, <2>2
    <2>3. CASE i # n
        BY <1>3, <1>5, <2>1, <2>3
    <2> QED
        BY <2>1, <2>2, <2>3
<1>6. index' \in Nat /\ \A i \in 1 .. Len(stack') : ~(index' < i)
    BY <1>1, <1>2
<1> QED
    BY <1>4, <1>5, <1>6 DEF Told

LEMMA PushEditTold ==
    ASSUME IInv, AllTold, NEW e \in Edits, NEW ok \in BOOLEAN, PushEdit(e, ok)
    PROVE  AllTold'
<1> DEFINE c == [kind |-> "edit", of |-> e]
<1>1. /\ TypeOK /\ c \in Commands /\ c.of = e /\ c.kind = "edit" /\ Pushed(c, ok)
      /\ groups' = groups /\ e \notin pushed
      /\ edits' = (IF ok THEN edits \cup {e} ELSE edits)
      /\ failed' = (IF ok THEN failed ELSE failed \cup {e})
    BY DEF PushEdit, IInv, Commands
<1> HIDE DEF c
<1> SUFFICES ASSUME NEW x \in (Groups \cup Edits) \ failed'
             PROVE  Told(x)'
    BY DEF AllTold
<1>2. Told(x) /\ (~ok => x # e)
    BY <1>1 DEF AllTold
<1>3. x # e => (Effective(x)' <=> Effective(x))
    BY <1>1 DEF Effective
<1>4. CASE x # e
    BY <1>1, <1>2, <1>3, <1>4, PushedTold
<1>5. CASE x = e
    <2>1. \A i \in 1 .. Len(stack) : stack[i].of # x
        <3>1. \A i \in 1 .. Len(stack) : stack[i] \in Commands /\ CommandGood(stack[i])
            BY <1>1 DEF TypeOK, IInv, CommandsGood
        <3>2. e \notin Groups
            BY UndoAssumption
        <3> QED
            BY <1>1, <1>5, <3>1, <3>2 DEF Commands, CommandGood
    <2>2. \A i \in 1 .. index : i \in 1 .. Len(stack)
        BY <1>1 DEF TypeOK
    <2>3. Effective(x)' /\ ok
        BY <1>1, <1>2, <1>5 DEF Effective
    <2>4. Pushed(c, TRUE)
        BY <1>1, <2>3
    <2> QED
        BY <1>1, <1>5, <2>1, <2>2, <2>3, <2>4, PushedOwn
<1> QED
    BY <1>4, <1>5

LEMMA CommitTold ==
    ASSUME IInv, AllTold, NEW g \in Groups, UndoGroupCommit(g)
    PROVE  AllTold'
<1> DEFINE c == [kind |-> "commit", of |-> g]
<1>1. /\ TypeOK /\ c \in Commands /\ c.of = g /\ c.kind = "commit" /\ failed' = failed
      /\ edits' = edits /\ groups' = [groups EXCEPT ![g].committed = TRUE]
      /\ UNCHANGED history \/ Pushed(c, TRUE)
      /\ ~groups[g].committed /\ groups \in [Groups -> GroupData]
    BY DEF UndoGroupCommit, IInv, TypeOK, Commands, single
<1> HIDE DEF c
<1> SUFFICES ASSUME NEW x \in (Groups \cup Edits) \ failed'
             PROVE  Told(x)'
    BY DEF AllTold
<1>2. Told(x)
    BY <1>1 DEF AllTold
<1>3. \A h \in Groups : groups'[h].applied = groups[h].applied
    BY <1>1 DEF GroupData
<1>4. Effective(x)' <=> Effective(x)
    BY <1>1, <1>3 DEF Effective
<1>5. CASE UNCHANGED history
    BY <1>1, <1>2, <1>4, <1>5, ToldSame DEF history
<1>6. CASE Pushed(c, TRUE) /\ x # g
    BY <1>1, <1>2, <1>4, <1>6, PushedTold
<1>7. CASE Pushed(c, TRUE) /\ x = g
    <2>1. \A i \in 1 .. Len(stack) : stack[i].of # x
        <3>1. \A i \in 1 .. Len(stack) : stack[i] \in Commands /\ CommandGood(stack[i])
            BY <1>1 DEF TypeOK, IInv, CommandsGood
        <3>2. g \notin Edits
            BY UndoAssumption
        <3> QED
            BY <1>1, <1>7, <3>1, <3>2 DEF Commands, CommandGood
    <2>2. \A i \in 1 .. index : i \in 1 .. Len(stack)
        BY <1>1 DEF TypeOK
    <2>3. Effective(x)
        <3>1. GoodData(groups[g]) /\ g \notin Edits
            BY UndoAssumption DEF IInv
        <3> QED
            BY <1>1, <1>7, <3>1 DEF Effective, GoodData
    <2> QED
        BY <1>1, <1>4, <1>7, <2>1, <2>2, <2>3, PushedOwn
<1> QED
    BY <1>1, <1>5, <1>6, <1>7

(* A group is reverted only while it is in effect, so the last command of  *)
(* it that is done is not its revert.                                      *)
LEMMA RevertTold ==
    ASSUME IInv, AllTold, NEW g \in Groups, NEW ok \in BOOLEAN, UndoGroupRevert(g, ok)
    PROVE  AllTold'
<1> DEFINE c == [kind |-> "revert", of |-> g]
<1>1. /\ TypeOK /\ c \in Commands /\ c.of = g /\ c.kind = "revert" /\ Pushed(c, ok)
      /\ ExecuteGroup(g, FALSE, ok) /\ groups[g].applied /\ FALSE \in BOOLEAN
      /\ g \notin Edits
    BY UndoAssumption DEF UndoGroupRevert, IInv, Commands
<1> HIDE DEF c
<1>2. /\ \A x \in Groups \cup Edits : x # g => (Effective(x)' <=> Effective(x))
      /\ ok => ~Effective(g)'
      /\ ~ok => g \in failed'
      /\ failed \subseteq failed'
    BY <1>1, ExecuteGroupEffect
<1> SUFFICES ASSUME NEW x \in (Groups \cup Edits) \ failed'
             PROVE  Told(x)'
    BY DEF AllTold
<1>3. Told(x)
    BY <1>2 DEF AllTold
<1>4. CASE x # g
    BY <1>1, <1>2, <1>3, <1>4, PushedTold
<1>5. CASE x = g
    <2>1. ok /\ Effective(x) /\ ~Effective(x)'
        BY <1>1, <1>2, <1>5 DEF Effective
    <2>2. ASSUME NEW i \in 1 .. index, stack[i].of = x
          PROVE  stack[i].kind = "commit"
        <3>1. i \in 1 .. Len(stack) /\ i <= index
            BY <1>1 DEF TypeOK
        <3>2. stack[i].kind # "revert"
            BY <1>3, <2>1, <2>2, <3>1 DEF Told
        <3>3. stack[i] \in Commands
            BY <1>1, <3>1 DEF TypeOK
        <3> QED
            BY <1>1, <1>5, <2>2, <3>2, <3>3 DEF Commands
    <2>3. ASSUME NEW i \in 1 .. index, NEW j \in 1 .. index, i < j,
                 stack[i].of = x, stack[j].of = x
          PROVE  FALSE
        <3>1. i \in 1 .. Len(stack) /\ j \in 1 .. Len(stack)
            BY <1>1 DEF TypeOK
        <3>2. stack[j].kind = "revert"
            BY <1>3, <2>3, <3>1 DEF Told
        <3> QED
            BY <2>2, <2>3, <3>2
    <2>4. Pushed(c, TRUE)
        BY <1>1, <2>1
    <2> QED
        BY <1>1, <1>5, <2>1, <2>2, <2>3, <2>4, PushedOwn
<1> QED
    BY <1>4, <1>5

(* Steps that touch neither the stack nor what is in effect. *)
LEMMA QuietTold ==
    ASSUME IInv, AllTold, stack' = stack, index' = index, edits' = edits, failed' = failed,
           \A g \in Groups : groups'[g].applied = groups[g].applied
    PROVE  AllTold'
<1>1. \A x \in Groups \cup Edits : Effective(x)' <=> Effective(x)
    BY DEF Effective
<1> QED
    BY <1>1, ToldSame DEF AllTold, IInv

LEMMA StepTold == IInv /\ AllTold /\ [Next]_vars => AllTold'
<1> SUFFICES ASSUME IInv, AllTold, [Next]_vars PROVE AllTold'
    OBVIOUS
<1>1. groups \in [Groups -> GroupData]
    BY DEF IInv, TypeOK
<1>2. ASSUME NEW g \in Groups, UndoGroupBegin(g) PROVE AllTold'
    BY <1>2, QuietTold DEF UndoGroupBegin, history, single
<1>3. ASSUME NEW g \in Groups, PushStep(g) PROVE AllTold'
    <2>1. \A h \in Groups : groups'[h].applied = groups[h].applied
        BY <1>1, <1>3 DEF PushStep, GroupData
    <2> QED
        BY <1>3, <2>1, QuietTold DEF PushStep, history, single
<1>4. ASSUME NEW g \in Groups, UndoGroupRelease(g) PROVE AllTold'
    BY <1>4, QuietTold DEF UndoGroupRelease, history, single
<1>5. ASSUME NEW g \in Groups, UndoGroupInvalidate(g) PROVE AllTold'
    <2>1. \A h \in Groups : groups'[h].applied = groups[h].applied
        BY <1>1, <1>5 DEF UndoGroupInvalidate, GroupData
    <2> QED
        BY <1>5, <2>1, QuietTold DEF UndoGroupInvalidate, history, single
<1>6. ASSUME NEW target, SetIndex(target) PROVE AllTold'
    BY <1>6, QuietTold DEF SetIndex, single
<1>7. ASSUME UNCHANGED vars PROVE AllTold'
    BY <1>7, QuietTold DEF vars, history, single
<1> QED
    BY <1>2, <1>3, <1>4, <1>5, <1>6, <1>7, CommitTold, RevertTold, PushEditTold,
       StepBackTold, StepForwardTold DEF Next

LEMMA ToldTruth == IInv /\ AllTold => HistoryTellsTruth
<1> SUFFICES ASSUME IInv, AllTold, NEW x \in (Groups \cup Edits) \ failed
             PROVE  /\ \A i \in Below(x) : (\A j \in Below(x) : j <= i) =>
                           (Effective(x) <=> stack[i].kind # "revert")
                    /\ \A i \in Above(x) : (\A j \in Above(x) : i <= j) =>
                           (Effective(x) <=> stack[i].kind = "revert")
    BY DEF HistoryTellsTruth
<1>1. /\ Told(x) /\ index \in Nat /\ Len(stack) \in Nat /\ index <= Len(stack)
    BY DEF AllTold, IInv, TypeOK
<1>2. ASSUME NEW i \in Below(x), \A j \in Below(x) : j <= i
      PROVE  Effective(x) <=> stack[i].kind # "revert"
    <2>1. i \in 1 .. Len(stack) /\ i <= index /\ stack[i].of = x
        BY <1>1 DEF Below
    <2>2. ASSUME stack[i].kind # "revert", NEW j \in 1 .. index,
                 stack[j].of = x, stack[j].kind = "revert"
          PROVE  FALSE
        <3>1. j \in 1 .. Len(stack) /\ j <= i
            BY <1>1, <1>2, <2>2 DEF Below
        <3>2. j < i
            BY <2>1, <2>2, <3>1
        <3> QED
            BY <1>1, <2>1, <2>2, <3>1, <3>2 DEF Told
    <2> QED
        BY <1>1, <2>1, <2>2 DEF Told
<1>3. ASSUME NEW i \in Above(x), \A j \in Above(x) : i <= j
      PROVE  Effective(x) <=> stack[i].kind = "revert"
    <2>1. i \in 1 .. Len(stack) /\ index < i /\ stack[i].of = x
        BY <1>1 DEF Above
    <2>2. ASSUME stack[i].kind = "revert", NEW j \in index + 1 .. Len(stack),
                 stack[j].of = x, stack[j].kind # "revert"
          PROVE  FALSE
        <3>1. j \in 1 .. Len(stack) /\ i <= j
            BY <1>1, <1>3, <2>2 DEF Above
        <3>2. i < j
            BY <2>1, <2>2, <3>1
        <3> QED
            BY <1>1, <2>1, <2>2, <3>1, <3>2 DEF Told
    <2> QED
        BY <1>1, <2>1, <2>2 DEF Told
<1> QED
    BY <1>2, <1>3

LEMMA InitiallyTold == Init => AllTold
<1>1. Len(<< >>) = 0
    OBVIOUS
<1> QED
    BY <1>1 DEF Init, AllTold, Told


-----------------------------------------------------------------------------

LEMMA BrokenStays ==
    ASSUME IInv, Step
    PROVE  \A g \in Groups : groups[g].error =>
               \A i \in 1 .. Len(groups[g].steps) : groups'[g].steps[i] = groups[g].steps[i]
<1>1. groups \in [Groups -> GroupData] /\ begun \subseteq Groups
    BY DEF IInv, TypeOK
<1>2. CASE groups' = groups
    BY <1>2
<1>3. ASSUME NEW g \in begun, groups' = [groups EXCEPT ![g] = groups'[g]],
             Advances(groups[g], groups'[g]), NEW h \in Groups, groups[h].error
      PROVE  \A i \in 1 .. Len(groups[h].steps) : groups'[h].steps[i] = groups[h].steps[i]
    <2>1. CASE h = g
        BY <1>3, <2>1 DEF Advances
    <2>2. CASE h # g
        BY <1>1, <1>3, <2>2
    <2> QED
        BY <2>1, <2>2
<1> QED
    BY <1>2, <1>3 DEF Step, OneAdvances

(* The registry, the stack, its index and the goal of a walk keep their    *)
(* types and bounds: no walk leaves the stack although refused commands    *)
(* are dropped under it, and no stack outgrows undoLimit (_push, undoTo).  *)
THEOREM UndoTypeOK == Spec => []TypeOK
<1>1. IInv /\ [Next]_vars => IInv'
    BY EveryStep, StepGood
<1>2. IInv => TypeOK
    BY DEF IInv
<1> QED
    BY <1>1, <1>2, Initially, PTL DEF Spec

(* A group of changes is atomic: whatever is undone, redone, reverted,     *)
(* refused and compensated, and in whatever order, its steps are in effect *)
(* together or not at all, or the group is in error (execute).             *)
THEOREM UndoGroupsAreAtomic == Spec => GroupsAreAtomic
<1>1. IInv /\ [Next]_vars => IInv'
    BY EveryStep, StepGood
<1>2. IInv /\ [Next]_vars => [Change!Next]_status
    BY EveryStep, StepRefines
<1>3. Init => IInv /\ Change!Init
    BY Initially
<1> QED
    BY <1>1, <1>2, <1>3, PTL DEF Spec, GroupsAreAtomic, Change!Spec, status

(* The steps of a group in error are never touched again (redo, undo).     *)
THEOREM UndoBrokenStaysPut == Spec => BrokenStaysPut
<1>1. IInv /\ [Next]_vars => IInv'
    BY EveryStep, StepGood
<1>2. IInv /\ [Next]_vars =>
          [\A g \in Groups : groups[g].error =>
              \A i \in 1 .. Len(groups[g].steps) :
                  groups'[g].steps[i] = groups[g].steps[i]]_vars
    BY EveryStep, BrokenStays
<1> QED
    BY <1>1, <1>2, Initially, PTL DEF Spec, BrokenStaysPut

(* The history that is shown tells the truth about every change none of    *)
(* whose commands was refused, through walks, reverts, dropped branches,   *)
(* dropped commands and the limit (push, undoTo, redoTo, undoGroupRevert). *)
THEOREM UndoHistoryTellsTruth == Spec => []HistoryTellsTruth
<1>1. IInv /\ [Next]_vars => IInv'
    BY EveryStep, StepGood
<1>2. IInv /\ AllTold /\ [Next]_vars => AllTold'
    BY StepTold
<1> QED
    BY <1>1, <1>2, Initially, InitiallyTold, ToldTruth, PTL DEF Spec

-----------------------------------------------------------------------------
(***************************************************************************)
(* The data table on the history.                                          *)
(***************************************************************************)

(* First what the lists of keys and of cells become.                       *)

LEMMA InsertAtIs ==
    ASSUME NEW S, NEW s \in Seq(S), NEW at \in 1 .. Len(s) + 1, NEW e \in S
    PROVE  /\ InsertAt(s, at, e) \in Seq(S)
           /\ Len(InsertAt(s, at, e)) = Len(s) + 1
           /\ \A i \in 1 .. Len(s) + 1 :
                 InsertAt(s, at, e)[i] = IF i < at THEN s[i] ELSE IF i = at THEN e ELSE s[i - 1]
<1> DEFINE front == SubSeq(s, 1, at - 1)
           back == SubSeq(s, at, Len(s))
           head == front \o <<e>>
<1>1. Len(s) \in Nat /\ at \in Nat /\ \A i \in 1 .. Len(s) : s[i] \in S
    OBVIOUS
<1>2. /\ front \in Seq(S) /\ Len(front) = at - 1
      /\ \A i \in 1 .. at - 1 : front[i] = s[i]
    BY <1>1
<1>3. /\ back \in Seq(S) /\ Len(back) = Len(s) - at + 1
      /\ \A i \in 1 .. Len(s) - at + 1 : back[i] = s[at + i - 1]
    <2>1. at \in Int /\ Len(s) \in Int /\ \A i \in at .. Len(s) : s[i] \in S
        BY <1>1
    <2> QED
        BY <1>1, <2>1, SubSeqProperties
<1>4. <<e>> \in Seq(S) /\ Len(<<e>>) = 1 /\ <<e>>[1] = e
    OBVIOUS
<1> HIDE DEF front, back
<1>5. /\ head \in Seq(S) /\ Len(head) = at
      /\ \A i \in 1 .. at : head[i] = IF i < at THEN s[i] ELSE e
    <2>1. /\ head \in Seq(S) /\ Len(head) = (at - 1) + 1
          /\ \A i \in 1 .. (at - 1) + 1 :
                head[i] = IF i <= at - 1 THEN front[i] ELSE <<e>>[i - (at - 1)]
        BY <1>2, <1>4, ConcatProperties
    <2>2. ASSUME NEW i \in 1 .. at PROVE head[i] = IF i < at THEN s[i] ELSE e
        <3>1. CASE i < at
            BY <1>1, <1>2, <2>1, <3>1
        <3>2. CASE ~(i < at)
            <4>1. i - (at - 1) = 1 /\ i \in 1 .. (at - 1) + 1 /\ ~(i <= at - 1)
                BY <1>1, <3>2
            <4> QED
                BY <1>4, <2>1, <3>2, <4>1
        <3> QED
            BY <3>1, <3>2
    <2> QED
        BY <1>1, <2>1, <2>2
<1>6. InsertAt(s, at, e) = head \o back
    BY DEF InsertAt, front, back
<1> HIDE DEF head
<1>7. Len(head) + Len(back) = Len(s) + 1 /\ Len(head) = at
    BY <1>1, <1>3, <1>5
<1>8. /\ head \o back \in Seq(S) /\ Len(head \o back) = Len(head) + Len(back)
      /\ \A i \in 1 .. Len(head) + Len(back) :
            (head \o back)[i] = IF i <= Len(head) THEN head[i] ELSE back[i - Len(head)]
    BY <1>3, <1>5, ConcatProperties
<1>9. ASSUME NEW i \in 1 .. Len(s) + 1
      PROVE  (head \o back)[i] = IF i < at THEN s[i] ELSE IF i = at THEN e ELSE s[i - 1]
    <2>1. CASE i <= at
        BY <1>1, <1>5, <1>8, <1>7, <2>1
    <2>2. CASE ~(i <= at)
        <3>1. i - at \in 1 .. Len(s) - at + 1 /\ at + (i - at) - 1 = i - 1
            BY <1>1, <2>2
        <3>2. back[i - at] = s[i - 1]
            BY <1>3, <3>1
        <3> QED
            BY <1>1, <1>8, <1>7, <2>2, <3>2
    <2> QED
        BY <2>1, <2>2
<1> QED
    BY <1>6, <1>8, <1>7, <1>9

LEMMA RemoveAtIs ==
    ASSUME NEW S, NEW s \in Seq(S), NEW at \in 1 .. Len(s)
    PROVE  /\ RemoveAt(s, at) \in Seq(S)
           /\ Len(RemoveAt(s, at)) = Len(s) - 1
           /\ \A i \in 1 .. Len(s) - 1 :
                 RemoveAt(s, at)[i] = IF i < at THEN s[i] ELSE s[i + 1]
<1> DEFINE front == SubSeq(s, 1, at - 1)
           back == SubSeq(s, at + 1, Len(s))
<1>1. Len(s) \in Nat /\ at \in Nat /\ \A i \in 1 .. Len(s) : s[i] \in S
    OBVIOUS
<1>2. /\ front \in Seq(S) /\ Len(front) = at - 1
      /\ \A i \in 1 .. at - 1 : front[i] = s[i]
    BY <1>1
<1>3. /\ back \in Seq(S) /\ Len(back) = Len(s) - at
      /\ \A i \in 1 .. Len(s) - at : back[i] = s[at + i]
    BY <1>1
<1>4. RemoveAt(s, at) = front \o back
    BY DEF RemoveAt
<1> HIDE DEF front, back
<1>5. /\ front \o back \in Seq(S) /\ Len(front \o back) = Len(front) + Len(back)
      /\ \A i \in 1 .. Len(front) + Len(back) :
            (front \o back)[i] = IF i <= Len(front) THEN front[i] ELSE back[i - Len(front)]
    BY <1>2, <1>3, ConcatProperties
<1>6. Len(front) + Len(back) = Len(s) - 1 /\ Len(front) = at - 1
    BY <1>1, <1>2, <1>3
<1>7. ASSUME NEW i \in 1 .. Len(s) - 1
      PROVE  (front \o back)[i] = IF i < at THEN s[i] ELSE s[i + 1]
    <2>1. CASE i < at
        BY <1>1, <1>2, <1>5, <1>6, <2>1
    <2>2. CASE ~(i < at)
        <3>1. /\ i - (at - 1) \in 1 .. Len(s) - at /\ at + (i - (at - 1)) = i + 1
              /\ ~(i <= at - 1)
            BY <1>1, <2>2
        <3>2. back[i - (at - 1)] = s[i + 1]
            BY <1>3, <3>1
        <3> QED
            BY <1>1, <1>5, <1>6, <2>2, <3>1, <3>2
    <2> QED
        BY <2>1, <2>2
<1> QED
    BY <1>4, <1>5, <1>6, <1>7

(* The cells of the column at i; there are none beyond the last.           *)
CellsAt(cells, i) == IF i \in 1 .. Len(cells) THEN cells[i] ELSE << >>

Contents == Values \cup {Blank}

Columns == Seq(Seq(Contents))

LEMMA InsertColumnIs ==
    ASSUME NEW cells \in Columns, NEW at \in Nat \ {0}, NEW column \in Seq(Contents),
           at <= Len(cells) + 1 \/ column = << >>
    PROVE  /\ InsertColumn(cells, at, column) \in Columns
           /\ Len(InsertColumn(cells, at, column)) =
                 IF at <= Len(cells) + 1 THEN Len(cells) + 1 ELSE Len(cells)
           /\ \A i \in Nat \ {0} : i < at =>
                 CellsAt(InsertColumn(cells, at, column), i) = CellsAt(cells, i)
           /\ CellsAt(InsertColumn(cells, at, column), at) = column
           /\ \A i \in Nat \ {0} : i > at =>
                 CellsAt(InsertColumn(cells, at, column), i) = CellsAt(cells, i - 1)
<1>1. Len(cells) \in Nat
    BY DEF Columns
<1>2. CASE at <= Len(cells) + 1
    <2> DEFINE new == InsertAt(cells, at, column)
    <2>1. at \in 1 .. Len(cells) + 1
        BY <1>1, <1>2
    <2>2. /\ new \in Columns /\ Len(new) = Len(cells) + 1
          /\ \A i \in 1 .. Len(cells) + 1 :
                new[i] = IF i < at THEN cells[i] ELSE IF i = at THEN column ELSE cells[i - 1]
        <3>1. cells \in Seq(Seq(Contents))
            BY DEF Columns
        <3>2. column \in Seq(Contents)
            OBVIOUS
        <3>3. /\ new \in Seq(Seq(Contents)) /\ Len(new) = Len(cells) + 1
              /\ \A i \in 1 .. Len(cells) + 1 :
                    new[i] = IF i < at THEN cells[i] ELSE IF i = at THEN column ELSE cells[i - 1]
            BY ONLY <2>1, <3>1, <3>2, InsertAtIs
        <3> QED
            BY <3>3 DEF Columns
    <2>3. InsertColumn(cells, at, column) = new
        BY <1>2 DEF InsertColumn
    <2> HIDE DEF new
    <2>4. ASSUME NEW i \in Nat \ {0}
          PROVE  CellsAt(new, i) = IF i < at THEN CellsAt(cells, i)
                                   ELSE IF i = at THEN column ELSE CellsAt(cells, i - 1)
        BY <1>1, <2>1, <2>2 DEF CellsAt
    <2> QED
        BY <1>2, <2>2, <2>3, <2>4
<1>3. CASE ~(at <= Len(cells) + 1)
    <2>1. InsertColumn(cells, at, column) = cells
        BY <1>3 DEF InsertColumn
    <2>2. ASSUME NEW i \in Nat \ {0}
          PROVE  CellsAt(cells, i) = IF i < at THEN CellsAt(cells, i)
                                     ELSE IF i = at THEN column ELSE CellsAt(cells, i - 1)
        BY <1>1, <1>3 DEF CellsAt
    <2> QED
        BY <1>3, <2>1, <2>2
<1> QED
    BY <1>2, <1>3

LEMMA RemoveColumnIs ==
    ASSUME NEW cells \in Columns, NEW at \in Nat \ {0}
    PROVE  /\ RemoveColumn(cells, at) \in Columns
           /\ Len(RemoveColumn(cells, at)) =
                 IF at <= Len(cells) THEN Len(cells) - 1 ELSE Len(cells)
           /\ \A i \in Nat \ {0} :
                 CellsAt(RemoveColumn(cells, at), i) =
                    IF i < at THEN CellsAt(cells, i) ELSE CellsAt(cells, i + 1)
<1>1. Len(cells) \in Nat
    BY DEF Columns
<1>2. CASE at <= Len(cells)
    <2> DEFINE new == RemoveAt(cells, at)
    <2>1. at \in 1 .. Len(cells)
        BY <1>1, <1>2
    <2>2. /\ new \in Columns /\ Len(new) = Len(cells) - 1
          /\ \A i \in 1 .. Len(cells) - 1 : new[i] = IF i < at THEN cells[i] ELSE cells[i + 1]
        BY <2>1, RemoveAtIs DEF Columns
    <2>3. RemoveColumn(cells, at) = new
        BY <1>2 DEF RemoveColumn
    <2> HIDE DEF new
    <2>4. ASSUME NEW i \in Nat \ {0}
          PROVE  CellsAt(new, i) = IF i < at THEN CellsAt(cells, i) ELSE CellsAt(cells, i + 1)
        BY <1>1, <2>1, <2>2 DEF CellsAt
    <2> QED
        BY <1>2, <2>2, <2>3, <2>4
<1>3. CASE ~(at <= Len(cells))
    <2>1. RemoveColumn(cells, at) = cells
        BY <1>3 DEF RemoveColumn
    <2>2. ASSUME NEW i \in Nat \ {0}
          PROVE  CellsAt(cells, i) = IF i < at THEN CellsAt(cells, i) ELSE CellsAt(cells, i + 1)
        BY <1>1, <1>3 DEF CellsAt
    <2> QED
        BY <1>3, <2>1, <2>2
<1> QED
    BY <1>2, <1>3

LEMMA InsertColumnType ==
    ASSUME NEW cells \in Columns, NEW at \in Nat \ {0}, NEW column \in Seq(Contents)
    PROVE  /\ InsertColumn(cells, at, column) \in Columns
           /\ Len(InsertColumn(cells, at, column)) =
                 IF at <= Len(cells) + 1 THEN Len(cells) + 1 ELSE Len(cells)
<1>1. Len(cells) \in Nat
    BY DEF Columns
<1>2. CASE at <= Len(cells) + 1
    BY <1>2, InsertColumnIs
<1>3. CASE ~(at <= Len(cells) + 1)
    BY <1>3 DEF InsertColumn
<1> QED
    BY <1>2, <1>3

(* The keys. *)
Distinct(keys) == \A i, j \in 1 .. Len(keys) : keys[i] = keys[j] => i = j

LEMMA ToSetIs ==
    ASSUME NEW S, NEW s \in Seq(S)
    PROVE  /\ ToSet(s) \subseteq S
           /\ \A x : x \in ToSet(s) <=> \E i \in 1 .. Len(s) : s[i] = x
<1>1. DOMAIN s = 1 .. Len(s) /\ \A i \in 1 .. Len(s) : s[i] \in S
    OBVIOUS
<1> QED
    BY <1>1 DEF ToSet

LEMMA InsertedKeys ==
    ASSUME NEW keys \in Seq(Keys), Distinct(keys), NEW at \in 1 .. Len(keys) + 1,
           NEW k \in Keys, k \notin ToSet(keys)
    PROVE  /\ InsertAt(keys, at, k) \in Seq(Keys)
           /\ Distinct(InsertAt(keys, at, k))
           /\ ToSet(InsertAt(keys, at, k)) = ToSet(keys) \cup {k}
<1> DEFINE new == InsertAt(keys, at, k)
<1>1. Len(keys) \in Nat /\ \A i \in 1 .. Len(keys) : keys[i] # k
    BY ToSetIs
<1>2. /\ new \in Seq(Keys) /\ Len(new) = Len(keys) + 1
      /\ \A i \in 1 .. Len(keys) + 1 :
            new[i] = IF i < at THEN keys[i] ELSE IF i = at THEN k ELSE keys[i - 1]
    BY ONLY keys \in Seq(Keys), at \in 1 .. Len(keys) + 1, k \in Keys, InsertAtIs
<1> HIDE DEF new
<1>3. Distinct(new)
    <2> SUFFICES ASSUME NEW i \in 1 .. Len(keys) + 1, NEW j \in 1 .. Len(keys) + 1,
                        new[i] = new[j]
                 PROVE  i = j
        BY <1>2 DEF Distinct
    <2>1. new[at] = k
        BY <1>2
    <2>2. ASSUME NEW m \in 1 .. Len(keys) + 1, m # at PROVE new[m] # k
        <3>1. CASE m < at
            <4>1. m \in 1 .. Len(keys) /\ new[m] = keys[m]
                BY <1>1, <1>2, <3>1
            <4> QED
                BY <1>1, <4>1
        <3>2. CASE m > at
            <4>1. m - 1 \in 1 .. Len(keys) /\ new[m] = keys[m - 1]
                BY <1>1, <1>2, <3>2
            <4> QED
                BY <1>1, <4>1
        <3> QED
            BY <2>2, <3>1, <3>2
    <2>3. CASE i = at \/ j = at
        BY <2>1, <2>2, <2>3
    <2>4. CASE i # at /\ j # at
        <3>1. \A m \in 1 .. Len(keys) + 1 : m # at => new[m] = keys[IF m < at THEN m ELSE m - 1]
            BY <1>2
        <3>2. (IF i < at THEN i ELSE i - 1) = (IF j < at THEN j ELSE j - 1)
            <4>1. /\ (IF i < at THEN i ELSE i - 1) \in 1 .. Len(keys)
                  /\ (IF j < at THEN j ELSE j - 1) \in 1 .. Len(keys)
                BY <1>1, <2>4
            <4> QED
                BY <2>4, <3>1, <4>1 DEF Distinct
        <3> QED
            BY <1>1, <2>4, <3>2
    <2> QED
        BY <2>3, <2>4
<1>4. ASSUME NEW x PROVE x \in ToSet(new) <=> x \in ToSet(keys) \cup {k}
    <2>1. ASSUME x \in ToSet(new) PROVE x \in ToSet(keys) \cup {k}
        <3>1. PICK i \in 1 .. Len(keys) + 1 : new[i] = x
            BY <1>2, <2>1, ToSetIs
        <3>2. CASE i = at
            BY <1>1, <1>2, <3>1, <3>2
        <3>3. CASE i < at
            <4>1. i \in 1 .. Len(keys) /\ x = keys[i]
                BY <1>1, <1>2, <3>1, <3>3
            <4> QED
                BY <4>1, ToSetIs
        <3>4. CASE i > at
            <4>1. i - 1 \in 1 .. Len(keys) /\ x = keys[i - 1]
                BY <1>1, <1>2, <3>1, <3>4
            <4> QED
                BY <4>1, ToSetIs
        <3> QED
            BY <1>1, <3>2, <3>3, <3>4
    <2>2. ASSUME x = k PROVE x \in ToSet(new)
        <3>1. at \in 1 .. Len(new) /\ new[at] = x
            BY <1>1, <1>2, <2>2
        <3> QED
            BY <1>2, <3>1, ToSetIs
    <2>3. ASSUME x \in ToSet(keys) PROVE x \in ToSet(new)
        <3>1. PICK i \in 1 .. Len(keys) : keys[i] = x
            BY <2>3, ToSetIs
        <3>2. CASE i < at
            <4>1. i \in 1 .. Len(new) /\ new[i] = x
                BY <1>1, <1>2, <3>1, <3>2
            <4> QED
                BY <1>2, <4>1, ToSetIs
        <3>3. CASE ~(i < at)
            <4>1. i + 1 \in 1 .. Len(new) /\ new[i + 1] = x
                BY <1>1, <1>2, <3>1, <3>3
            <4> QED
                BY <1>2, <4>1, ToSetIs
        <3> QED
            BY <3>2, <3>3
    <2> QED
        BY <2>1, <2>2, <2>3
<1> QED
    BY <1>2, <1>3, <1>4 DEF new

LEMMA RemovedKeys ==
    ASSUME NEW keys \in Seq(Keys), Distinct(keys), NEW at \in 1 .. Len(keys)
    PROVE  /\ RemoveAt(keys, at) \in Seq(Keys)
           /\ Distinct(RemoveAt(keys, at))
           /\ ToSet(RemoveAt(keys, at)) = ToSet(keys) \ {keys[at]}
<1> DEFINE new == RemoveAt(keys, at)
<1>1. Len(keys) \in Nat /\ at \in Nat
    OBVIOUS
<1>2. /\ new \in Seq(Keys) /\ Len(new) = Len(keys) - 1
      /\ \A i \in 1 .. Len(keys) - 1 : new[i] = IF i < at THEN keys[i] ELSE keys[i + 1]
    BY RemoveAtIs
<1> HIDE DEF new
<1>3. ASSUME NEW i \in 1 .. Len(keys) - 1
      PROVE  \E m \in 1 .. Len(keys) : m # at /\ m = (IF i < at THEN i ELSE i + 1) /\ new[i] = keys[m]
    BY <1>1, <1>2
<1>4. Distinct(new)
    <2> SUFFICES ASSUME NEW i \in 1 .. Len(keys) - 1, NEW j \in 1 .. Len(keys) - 1,
                        new[i] = new[j]
                 PROVE  i = j
        BY <1>2 DEF Distinct
    <2>1. (IF i < at THEN i ELSE i + 1) = (IF j < at THEN j ELSE j + 1)
        BY <1>3 DEF Distinct
    <2> QED
        BY <1>1, <2>1
<1>5. ASSUME NEW x PROVE x \in ToSet(new) <=> x \in ToSet(keys) \ {keys[at]}
    <2>1. ASSUME x \in ToSet(new) PROVE x \in ToSet(keys) \ {keys[at]}
        <3>1. PICK i \in 1 .. Len(keys) - 1 : new[i] = x
            BY <1>2, <2>1, ToSetIs
        <3>2. PICK m \in 1 .. Len(keys) : m # at /\ keys[m] = x
            BY <1>3, <3>1
        <3> QED
            BY <3>2, ToSetIs DEF Distinct
    <2>2. ASSUME x \in ToSet(keys), x # keys[at] PROVE x \in ToSet(new)
        <3>1. PICK i \in 1 .. Len(keys) : keys[i] = x
            BY <2>2, ToSetIs
        <3>2. CASE i < at
            <4>1. i \in 1 .. Len(new) /\ new[i] = x
                BY <1>1, <1>2, <3>1, <3>2
            <4> QED
                BY <1>2, <4>1, ToSetIs
        <3>3. CASE i > at
            <4>1. i - 1 \in 1 .. Len(new) /\ new[i - 1] = x
                BY <1>1, <1>2, <3>1, <3>3
            <4> QED
                BY <1>2, <4>1, ToSetIs
        <3> QED
            BY <1>1, <2>2, <3>1, <3>2, <3>3
    <2> QED
        BY <2>1, <2>2
<1> QED
    BY <1>2, <1>4, <1>5 DEF new

LEMMA RenamedKeys ==
    ASSUME NEW keys \in Seq(Keys), Distinct(keys), NEW at \in 1 .. Len(keys),
           NEW k \in Keys, k \notin ToSet(keys)
    PROVE  /\ [keys EXCEPT ![at] = k] \in Seq(Keys)
           /\ Len([keys EXCEPT ![at] = k]) = Len(keys)
           /\ Distinct([keys EXCEPT ![at] = k])
           /\ ToSet([keys EXCEPT ![at] = k]) = (ToSet(keys) \ {keys[at]}) \cup {k}
<1> DEFINE new == [keys EXCEPT ![at] = k]
<1>1. /\ new \in Seq(Keys) /\ Len(new) = Len(keys)
      /\ \A i \in 1 .. Len(keys) : new[i] = IF i = at THEN k ELSE keys[i]
    BY ExceptSeq
<1>2. \A i \in 1 .. Len(keys) : keys[i] # k
    BY ToSetIs
<1> HIDE DEF new
<1>3. Distinct(new)
    BY <1>1, <1>2 DEF Distinct
<1>4. ASSUME NEW x PROVE x \in ToSet(new) <=> x \in (ToSet(keys) \ {keys[at]}) \cup {k}
    <2>1. x \in ToSet(new) <=> \E i \in 1 .. Len(keys) : (IF i = at THEN k ELSE keys[i]) = x
        BY <1>1, ToSetIs
    <2>2. x \in ToSet(keys) <=> \E i \in 1 .. Len(keys) : keys[i] = x
        BY ToSetIs
    <2> QED
        BY <2>1, <2>2 DEF Distinct
<1> QED
    BY <1>1, <1>3, <1>4 DEF new

(* The cells of columns that are moved after a script emptied the table    *)
(* come apart from their keys, and nothing is claimed of them.             *)
Sheltered == ~(MayMove /\ MayClear)

(***************************************************************************)
(* A table is sound when below each key stands what was written to it, and *)
(* the next row is the one after.  The cells may have fewer columns than   *)
(* there are keys, after a script emptied the table; with columns that are *)
(* moved they may not.                                                     *)
(***************************************************************************)

Agree(keys, cells, length, written) ==
    /\ keys \in Seq(Keys) /\ Distinct(keys)
    /\ cells \in Columns /\ Len(cells) <= Len(keys)
    /\ length \in [ToSet(keys) -> Nat]
    /\ written \in [ToSet(keys) -> Seq(Values)]
    /\ \A k \in ToSet(keys) : length[k] = Len(written[k])
    /\ Sheltered => /\ MayMove => Len(cells) = Len(keys)
                    /\ \A i \in 1 .. Len(keys) : CellsAt(cells, i) = written[keys[i]]

Sound(t) == Agree(t.keys, t.cells, t.length, t.written)

Tables == {t \in [keys : Seq(Keys), cells : Columns,
                  length : UNION {[K -> Nat] : K \in SUBSET Keys},
                  written : UNION {[K -> Seq(Values)] : K \in SUBSET Keys}] : Sound(t)}

LEMMA TableMade ==
    ASSUME NEW t, Sound(t),
           t = [keys |-> t.keys, cells |-> t.cells, length |-> t.length, written |-> t.written]
    PROVE  t \in Tables
<1>1. ToSet(t.keys) \in SUBSET Keys
    BY ToSetIs DEF Sound, Agree
<1>2. /\ t.length \in UNION {[K -> Nat] : K \in SUBSET Keys}
      /\ t.written \in UNION {[K -> Seq(Values)] : K \in SUBSET Keys}
    BY <1>1 DEF Sound, Agree
<1>3. t.keys \in Seq(Keys) /\ t.cells \in Columns
    BY DEF Sound, Agree
<1>4. [keys |-> t.keys, cells |-> t.cells, length |-> t.length, written |-> t.written]
         \in [keys : Seq(Keys), cells : Columns,
              length : UNION {[K -> Nat] : K \in SUBSET Keys},
              written : UNION {[K -> Seq(Values)] : K \in SUBSET Keys}]
    BY ONLY <1>2, <1>3
<1> QED
    BY ONLY <1>4, Sound(t), t = [keys |-> t.keys, cells |-> t.cells, length |-> t.length, written |-> t.written]
       DEF Tables

LEMMA IndexIs ==
    ASSUME NEW t, t.keys \in Seq(Keys), Distinct(t.keys), NEW k, Has(t, k)
    PROVE  /\ Index(t, k) \in 1 .. Len(t.keys) /\ t.keys[Index(t, k)] = k
           /\ k \in Keys /\ k \in ToSet(t.keys)
           /\ \A i \in 1 .. Len(t.keys) : t.keys[i] = k => i = Index(t, k)
<1>1. DOMAIN t.keys = 1 .. Len(t.keys)
    OBVIOUS
<1>2. k \in ToSet(t.keys)
    BY DEF Has
<1>3. \E i \in 1 .. Len(t.keys) : t.keys[i] = k
    BY <1>2, ToSetIs
<1>4. Index(t, k) = CHOOSE i \in 1 .. Len(t.keys) : t.keys[i] = k
    BY <1>1 DEF Index
<1>5. Index(t, k) \in 1 .. Len(t.keys) /\ t.keys[Index(t, k)] = k
    BY <1>3, <1>4
<1> QED
    BY <1>2, <1>5, ToSetIs DEF Distinct

LEMMA InsertedAgree ==
    ASSUME NEW keys, NEW cells, NEW length, NEW written, Agree(keys, cells, length, written),
           NEW k \in Keys, k \notin ToSet(keys), NEW at \in 1 .. Len(keys) + 1
    PROVE  Agree(InsertAt(keys, at, k), InsertColumn(cells, at, << >>),
                 WithKey(length, k, 0), WithKey(written, k, << >>))
<1> DEFINE ukeys == InsertAt(keys, at, k)
           ucells == InsertColumn(cells, at, << >>)
           ulength == WithKey(length, k, 0)
           uwritten == WithKey(written, k, << >>)
<1>1. /\ keys \in Seq(Keys) /\ Distinct(keys) /\ cells \in Columns
      /\ Len(keys) \in Nat /\ Len(cells) \in Nat /\ at \in Nat \ {0}
    BY DEF Agree, Columns
<1>2. /\ ukeys \in Seq(Keys) /\ Distinct(ukeys)
      /\ ToSet(ukeys) = ToSet(keys) \cup {k}
    BY <1>1, InsertedKeys
<1>3. /\ Len(ukeys) = Len(keys) + 1
      /\ \A i \in 1 .. Len(keys) + 1 :
            ukeys[i] = IF i < at THEN keys[i] ELSE IF i = at THEN k ELSE keys[i - 1]
    BY <1>1, InsertAtIs
<1>4. /\ ucells \in Columns
      /\ Len(ucells) = IF at <= Len(cells) + 1 THEN Len(cells) + 1 ELSE Len(cells)
      /\ \A i \in Nat \ {0} : i < at => CellsAt(ucells, i) = CellsAt(cells, i)
      /\ CellsAt(ucells, at) = << >>
      /\ \A i \in Nat \ {0} : i > at => CellsAt(ucells, i) = CellsAt(cells, i - 1)
    <2>1. << >> \in Seq(Contents)
        OBVIOUS
    <2>2. PICK none \in Seq(Contents) : none = << >>
        BY <2>1
    <2> DEFINE new == InsertColumn(cells, at, none)
    <2>3. /\ new \in Columns
          /\ Len(new) = IF at <= Len(cells) + 1 THEN Len(cells) + 1 ELSE Len(cells)
          /\ \A i \in Nat \ {0} : i < at => CellsAt(new, i) = CellsAt(cells, i)
          /\ CellsAt(new, at) = none
          /\ \A i \in Nat \ {0} : i > at => CellsAt(new, i) = CellsAt(cells, i - 1)
        BY ONLY <1>1, <2>2, InsertColumnIs
    <2> QED
        BY <2>2, <2>3
<1>5. /\ ulength \in [ToSet(ukeys) -> Nat] /\ ulength[k] = 0
      /\ \A q \in ToSet(keys) : ulength[q] = length[q]
    <2>1. length \in [ToSet(keys) -> Nat] /\ ToSet(keys) \ {k} = ToSet(keys)
        BY <1>1 DEF Agree
    <2> QED
        BY <1>2, <2>1 DEF WithKey
<1>6. /\ uwritten \in [ToSet(ukeys) -> Seq(Values)] /\ uwritten[k] = << >>
      /\ \A q \in ToSet(keys) : uwritten[q] = written[q]
    <2>1. /\ << >> \in Seq(Values) /\ written \in [ToSet(keys) -> Seq(Values)]
          /\ ToSet(keys) \ {k} = ToSet(keys)
        BY <1>1 DEF Agree
    <2> QED
        BY <1>2, <2>1 DEF WithKey
<1> HIDE DEF ukeys, ucells, ulength, uwritten
<1>7. ASSUME Sheltered, NEW i \in 1 .. Len(ukeys) PROVE CellsAt(ucells, i) = uwritten[ukeys[i]]
    <2>1. i \in Nat \ {0} /\ i \in 1 .. Len(keys) + 1
        BY <1>1, <1>3
    <2>2. ASSUME NEW j \in 1 .. Len(keys), ukeys[i] = keys[j],
                 CellsAt(ucells, i) = CellsAt(cells, j)
          PROVE  CellsAt(ucells, i) = uwritten[ukeys[i]]
        <3>1. keys[j] \in ToSet(keys) /\ CellsAt(cells, j) = written[keys[j]]
            BY <1>1, <1>7, ToSetIs DEF Agree
        <3> QED
            BY <1>6, <2>2, <3>1
    <2>3. CASE i < at
        <3>1. i \in 1 .. Len(keys) /\ ukeys[i] = keys[i] /\ CellsAt(ucells, i) = CellsAt(cells, i)
            BY <1>1, <1>3, <1>4, <2>1, <2>3
        <3> QED
            BY <2>2, <3>1
    <2>4. CASE i = at
        BY <1>1, <1>3, <1>4, <1>6, <2>1, <2>4
    <2>5. CASE i > at
        <3>1. /\ i - 1 \in 1 .. Len(keys) /\ ukeys[i] = keys[i - 1]
              /\ CellsAt(ucells, i) = CellsAt(cells, i - 1)
            BY <1>1, <1>3, <1>4, <2>1, <2>5
        <3> QED
            BY <2>2, <3>1
    <2> QED
        BY <1>1, <2>1, <2>3, <2>4, <2>5
<1>8. Len(ucells) <= Len(ukeys) /\ (Sheltered /\ MayMove => Len(ucells) = Len(ukeys))
    <2>1. Len(cells) <= Len(keys) /\ (Sheltered /\ MayMove => Len(cells) = Len(keys))
        BY <1>1 DEF Agree
    <2> QED
        BY <1>1, <1>3, <1>4, <2>1
<1>9. \A q \in ToSet(ukeys) : ulength[q] = Len(uwritten[q])
    <2>1. \A q \in ToSet(keys) : length[q] = Len(written[q])
        BY <1>1 DEF Agree
    <2> QED
        BY <1>2, <1>5, <1>6, <2>1
<1>10. Agree(ukeys, ucells, ulength, uwritten)
    BY <1>2, <1>4, <1>5, <1>6, <1>7, <1>8, <1>9 DEF Agree
<1> QED
    BY <1>10 DEF ukeys, ucells, ulength, uwritten

LEMMA InsertedSound ==
    ASSUME NEW t \in Tables, NEW k \in Keys, ~Has(t, k), NEW at \in 1 .. Len(t.keys) + 1
    PROVE  Inserted(t, at, k) \in Tables
<1>1. k \notin ToSet(t.keys) /\ Agree(t.keys, t.cells, t.length, t.written)
    BY DEF Has, Tables, Sound
<1>2. Agree(InsertAt(t.keys, at, k), InsertColumn(t.cells, at, << >>),
            WithKey(t.length, k, 0), WithKey(t.written, k, << >>))
    BY <1>1, InsertedAgree
<1> QED
    BY <1>2, TableMade DEF Sound, Inserted

LEMMA RemovedAgree ==
    ASSUME NEW keys, NEW cells, NEW length, NEW written, Agree(keys, cells, length, written),
           NEW at \in 1 .. Len(keys), NEW k, keys[at] = k
    PROVE  Agree(RemoveAt(keys, at), RemoveColumn(cells, at),
                 WithoutKey(length, k), WithoutKey(written, k))
<1> DEFINE ukeys == RemoveAt(keys, at)
           ucells == RemoveColumn(cells, at)
           ulength == WithoutKey(length, k)
           uwritten == WithoutKey(written, k)
<1>1. /\ keys \in Seq(Keys) /\ Distinct(keys) /\ cells \in Columns
      /\ Len(keys) \in Nat /\ Len(cells) \in Nat /\ at \in Nat \ {0}
    BY DEF Agree, Columns
<1>2. /\ ukeys \in Seq(Keys) /\ Distinct(ukeys) /\ ToSet(ukeys) = ToSet(keys) \ {k}
    BY <1>1, RemovedKeys
<1>3. /\ Len(ukeys) = Len(keys) - 1
      /\ \A i \in 1 .. Len(keys) - 1 : ukeys[i] = IF i < at THEN keys[i] ELSE keys[i + 1]
    BY <1>1, RemoveAtIs
<1>4. /\ ucells \in Columns
      /\ Len(ucells) = IF at <= Len(cells) THEN Len(cells) - 1 ELSE Len(cells)
      /\ \A i \in Nat \ {0} :
            CellsAt(ucells, i) = IF i < at THEN CellsAt(cells, i) ELSE CellsAt(cells, i + 1)
    BY <1>1, RemoveColumnIs
<1>5. /\ ulength \in [ToSet(ukeys) -> Nat]
      /\ \A q \in ToSet(ukeys) : ulength[q] = length[q]
    <2>1. length \in [ToSet(keys) -> Nat]
        BY <1>1 DEF Agree
    <2> QED
        BY <1>2, <2>1 DEF WithoutKey
<1>6. /\ uwritten \in [ToSet(ukeys) -> Seq(Values)]
      /\ \A q \in ToSet(ukeys) : uwritten[q] = written[q]
    <2>1. written \in [ToSet(keys) -> Seq(Values)]
        BY <1>1 DEF Agree
    <2> QED
        BY <1>2, <2>1 DEF WithoutKey
<1> HIDE DEF ukeys, ucells, ulength, uwritten
<1>7. ASSUME Sheltered, NEW i \in 1 .. Len(ukeys) PROVE CellsAt(ucells, i) = uwritten[ukeys[i]]
    <2>1. i \in Nat \ {0} /\ i \in 1 .. Len(keys) - 1
        BY <1>1, <1>3
    <2>2. PICK j \in 1 .. Len(keys) : /\ ukeys[i] = keys[j]
                                        /\ CellsAt(ucells, i) = CellsAt(cells, j)
        <3>1. i \in 1 .. Len(keys) /\ i + 1 \in 1 .. Len(keys)
            BY <1>1, <2>1
        <3>2. ukeys[i] = IF i < at THEN keys[i] ELSE keys[i + 1]
            BY <1>3, <2>1
        <3>3. CellsAt(ucells, i) = IF i < at THEN CellsAt(cells, i) ELSE CellsAt(cells, i + 1)
            BY <1>4, <2>1
        <3> QED
            BY <3>1, <3>2, <3>3
    <2>3. CellsAt(cells, j) = written[keys[j]]
        BY <1>1, <1>7 DEF Agree
    <2>4. ukeys[i] \in ToSet(ukeys)
        BY <1>2, ToSetIs
    <2> QED
        BY <1>6, <2>2, <2>3, <2>4
<1>8. Len(ucells) <= Len(ukeys) /\ (Sheltered /\ MayMove => Len(ucells) = Len(ukeys))
    <2>1. Len(cells) <= Len(keys) /\ (Sheltered /\ MayMove => Len(cells) = Len(keys))
        BY <1>1 DEF Agree
    <2> QED
        BY <1>1, <1>3, <1>4, <2>1
<1>9. \A q \in ToSet(ukeys) : ulength[q] = Len(uwritten[q])
    <2>1. \A q \in ToSet(keys) : length[q] = Len(written[q])
        BY <1>1 DEF Agree
    <2> QED
        BY <1>2, <1>5, <1>6, <2>1
<1>10. Agree(ukeys, ucells, ulength, uwritten)
    BY <1>2, <1>4, <1>5, <1>6, <1>7, <1>8, <1>9 DEF Agree
<1> QED
    BY <1>10 DEF ukeys, ucells, ulength, uwritten

LEMMA RemovedSound ==
    ASSUME NEW t \in Tables, NEW k, Has(t, k)
    PROVE  Removed(t, k) \in Tables
<1>1. Agree(t.keys, t.cells, t.length, t.written)
    BY DEF Tables, Sound
<1>2. Index(t, k) \in 1 .. Len(t.keys) /\ t.keys[Index(t, k)] = k
    BY <1>1, IndexIs DEF Agree
<1>3. Agree(RemoveAt(t.keys, Index(t, k)), RemoveColumn(t.cells, Index(t, k)),
            WithoutKey(t.length, k), WithoutKey(t.written, k))
    BY <1>1, <1>2, RemovedAgree
<1> QED
    BY <1>3, TableMade DEF Sound, Removed

LEMMA RenamedAgree ==
    ASSUME NEW keys, NEW cells, NEW length, NEW written, Agree(keys, cells, length, written),
           NEW at \in 1 .. Len(keys), NEW old, keys[at] = old,
           NEW k \in Keys, k \notin ToSet(keys)
    PROVE  Agree([keys EXCEPT ![at] = k], cells, WithKeyAs(length, old, k),
                 WithKeyAs(written, old, k))
<1> DEFINE ukeys == [keys EXCEPT ![at] = k]
           ulength == WithKeyAs(length, old, k)
           uwritten == WithKeyAs(written, old, k)
<1>1. /\ keys \in Seq(Keys) /\ Distinct(keys) /\ Len(keys) \in Nat
      /\ \A i \in 1 .. Len(keys) : keys[i] \in ToSet(keys)
      /\ old \in ToSet(keys)
    BY ToSetIs DEF Agree
<1>2. /\ ukeys \in Seq(Keys) /\ Distinct(ukeys) /\ Len(ukeys) = Len(keys)
      /\ ToSet(ukeys) = (ToSet(keys) \ {old}) \cup {k}
    <2>1. /\ ukeys \in Seq(Keys) /\ Len(ukeys) = Len(keys) /\ Distinct(ukeys)
          /\ ToSet(ukeys) = (ToSet(keys) \ {keys[at]}) \cup {k}
        BY ONLY <1>1, at \in 1 .. Len(keys), k \in Keys, k \notin ToSet(keys), RenamedKeys
    <2> QED
        BY <2>1
<1>3. \A i \in 1 .. Len(keys) : ukeys[i] = IF i = at THEN k ELSE keys[i]
    BY <1>1, ExceptSeq
<1>4. /\ ulength \in [ToSet(ukeys) -> Nat] /\ ulength[k] = length[old]
      /\ \A q \in ToSet(keys) \ {old} : ulength[q] = length[q]
    <2>1. PICK K : K = ToSet(keys)
        OBVIOUS
    <2>2. length \in [K -> Nat] /\ old \in K /\ k \notin K
        BY <1>1, <2>1 DEF Agree
    <2>3. ulength = [q \in (K \ {old}) \cup {k} |-> IF q = k THEN length[old] ELSE length[q]]
        BY ONLY <2>2 DEF WithKeyAs, WithKey, WithoutKey
    <2>4. \A q \in K : length[q] \in Nat
        BY <2>2
    <2>5. /\ ulength \in [(K \ {old}) \cup {k} -> Nat] /\ ulength[k] = length[old]
          /\ \A q \in K \ {old} : ulength[q] = length[q]
        BY ONLY <2>2, <2>3, <2>4
    <2> QED
        BY <1>2, <2>1, <2>5
<1>5. /\ uwritten \in [ToSet(ukeys) -> Seq(Values)] /\ uwritten[k] = written[old]
      /\ \A q \in ToSet(keys) \ {old} : uwritten[q] = written[q]
    <2>1. PICK K : K = ToSet(keys)
        OBVIOUS
    <2>2. written \in [K -> Seq(Values)] /\ old \in K /\ k \notin K
        BY <1>1, <2>1 DEF Agree
    <2>3. uwritten = [q \in (K \ {old}) \cup {k} |-> IF q = k THEN written[old] ELSE written[q]]
        BY ONLY <2>2 DEF WithKeyAs, WithKey, WithoutKey
    <2>4. \A q \in K : written[q] \in Seq(Values)
        BY <2>2
    <2>5. /\ uwritten \in [(K \ {old}) \cup {k} -> Seq(Values)] /\ uwritten[k] = written[old]
          /\ \A q \in K \ {old} : uwritten[q] = written[q]
        BY ONLY <2>2, <2>3, <2>4
    <2> QED
        BY <1>2, <2>1, <2>5
<1> HIDE DEF ukeys, ulength, uwritten
<1>6. ASSUME Sheltered, NEW i \in 1 .. Len(ukeys) PROVE CellsAt(cells, i) = uwritten[ukeys[i]]
    <2>1. i \in 1 .. Len(keys) /\ CellsAt(cells, i) = written[keys[i]]
        BY <1>2, <1>6 DEF Agree
    <2>2. CASE i = at
        BY <1>3, <1>5, <2>1, <2>2
    <2>3. CASE i # at
        <3>1. ukeys[i] = keys[i] /\ keys[i] \in ToSet(keys) \ {old}
            BY <1>1, <1>3, <2>1, <2>3 DEF Distinct
        <3> QED
            BY <1>5, <2>1, <3>1
    <2> QED
        BY <2>2, <2>3
<1>7. \A q \in ToSet(ukeys) : ulength[q] = Len(uwritten[q])
    <2>1. \A q \in ToSet(keys) : length[q] = Len(written[q])
        BY DEF Agree
    <2> QED
        BY <1>1, <1>2, <1>4, <1>5, <2>1
<1>8. cells \in Columns /\ Len(cells) <= Len(ukeys) /\ (Sheltered /\ MayMove => Len(cells) = Len(ukeys))
    BY <1>2 DEF Agree
<1>9. Agree(ukeys, cells, ulength, uwritten)
    BY <1>2, <1>4, <1>5, <1>6, <1>7, <1>8 DEF Agree
<1> QED
    BY <1>9 DEF ukeys, ulength, uwritten

LEMMA RenamedSound ==
    ASSUME NEW t \in Tables, NEW old, Has(t, old), NEW k \in Keys, ~Has(t, k)
    PROVE  Renamed(t, old, k) \in Tables
<1>1. k \notin ToSet(t.keys) /\ Agree(t.keys, t.cells, t.length, t.written)
    BY DEF Has, Tables, Sound
<1>2. Index(t, old) \in 1 .. Len(t.keys) /\ t.keys[Index(t, old)] = old
    BY <1>1, IndexIs DEF Agree
<1>3. Agree([t.keys EXCEPT ![Index(t, old)] = k], t.cells, WithKeyAs(t.length, old, k),
            WithKeyAs(t.written, old, k))
    BY <1>1, <1>2, RenamedAgree
<1> QED
    BY <1>3, TableMade DEF Sound, Renamed

LEMMA MovedAgree ==
    ASSUME NEW keys, NEW cells, NEW length, NEW written, Agree(keys, cells, length, written),
           MayMove, NEW src \in 1 .. Len(keys), NEW dst \in 1 .. Len(keys)
    PROVE  Agree(InsertAt(RemoveAt(keys, src), dst, keys[src]),
                 InsertColumn(RemoveColumn(cells, src), dst, CellsAt(cells, src)), length, written)
<1> DEFINE rest == RemoveAt(keys, src)
           others == RemoveColumn(cells, src)
           ukeys == InsertAt(rest, dst, keys[src])
           ucells == InsertColumn(others, dst, CellsAt(cells, src))
<1>1. /\ keys \in Seq(Keys) /\ Distinct(keys) /\ Len(keys) \in Nat /\ cells \in Columns
      /\ src \in Nat \ {0} /\ dst \in Nat \ {0}
      /\ keys[src] \in ToSet(keys) /\ keys[src] \in Keys /\ Len(cells) \in Nat
      /\ Len(cells) <= Len(keys)
    BY ToSetIs DEF Agree, Columns
<1>2. /\ rest \in Seq(Keys) /\ Distinct(rest) /\ ToSet(rest) = ToSet(keys) \ {keys[src]}
    BY <1>1, RemovedKeys
<1>3. /\ Len(rest) = Len(keys) - 1
      /\ \A i \in 1 .. Len(keys) - 1 : rest[i] = IF i < src THEN keys[i] ELSE keys[i + 1]
    BY <1>1, RemoveAtIs
<1>4. /\ others \in Columns
      /\ Len(others) = IF src <= Len(cells) THEN Len(cells) - 1 ELSE Len(cells)
      /\ \A i \in Nat \ {0} :
            CellsAt(others, i) = IF i < src THEN CellsAt(cells, i) ELSE CellsAt(cells, i + 1)
    BY <1>1, RemoveColumnIs
<1>5. dst \in 1 .. Len(rest) + 1 /\ Len(others) <= Len(rest)
    BY <1>1, <1>3, <1>4
<1>6. Sheltered => Len(cells) = Len(keys) /\ dst <= Len(others) + 1
    BY <1>1, <1>4 DEF Agree
<1>7. CellsAt(cells, src) \in Seq(Contents)
    <2>1. << >> \in Seq(Contents)
        OBVIOUS
    <2> QED
        BY <1>1, <2>1 DEF CellsAt, Columns
<1> HIDE DEF rest, others
<1>8. /\ ukeys \in Seq(Keys) /\ Distinct(ukeys) /\ ToSet(ukeys) = ToSet(keys)
    <2>1. keys[src] \notin ToSet(rest)
        BY <1>2
    <2>2. /\ ukeys \in Seq(Keys) /\ Distinct(ukeys)
          /\ ToSet(ukeys) = ToSet(rest) \cup {keys[src]}
        BY <1>1, <1>2, <1>5, <2>1, InsertedKeys
    <2> QED
        BY <1>1, <1>2, <2>2
<1>9. /\ Len(ukeys) = Len(rest) + 1
      /\ \A i \in 1 .. Len(rest) + 1 :
            ukeys[i] = IF i < dst THEN rest[i] ELSE IF i = dst THEN keys[src] ELSE rest[i - 1]
    <2>1. PICK key \in Keys : key = keys[src]
        BY <1>1
    <2>2. rest \in Seq(Keys) /\ dst \in 1 .. Len(rest) + 1
        BY <1>2, <1>5
    <2>3. /\ Len(InsertAt(rest, dst, key)) = Len(rest) + 1
          /\ \A i \in 1 .. Len(rest) + 1 :
                InsertAt(rest, dst, key)[i] =
                  IF i < dst THEN rest[i] ELSE IF i = dst THEN key ELSE rest[i - 1]
        BY ONLY key \in Keys, <2>2, InsertAtIs, SMTT(30)
    <2> QED
        BY <2>1, <2>3
<1>10. /\ ucells \in Columns
       /\ Len(ucells) = IF dst <= Len(others) + 1 THEN Len(others) + 1 ELSE Len(others)
    <2>1. PICK column \in Seq(Contents) : column = CellsAt(cells, src)
        BY <1>7
    <2> DEFINE new == InsertColumn(others, dst, column)
    <2>2. /\ new \in Columns
          /\ Len(new) = IF dst <= Len(others) + 1 THEN Len(others) + 1 ELSE Len(others)
        BY ONLY <1>1, <1>4, InsertColumnType
    <2> QED
        BY <2>1, <2>2
<1>11. ASSUME Sheltered
      PROVE  /\ \A i \in Nat \ {0} : i < dst => CellsAt(ucells, i) = CellsAt(others, i)
             /\ CellsAt(ucells, dst) = CellsAt(cells, src)
             /\ \A i \in Nat \ {0} : i > dst => CellsAt(ucells, i) = CellsAt(others, i - 1)
    <2>1. PICK column \in Seq(Contents) : column = CellsAt(cells, src)
        BY <1>7
    <2> DEFINE new == InsertColumn(others, dst, column)
    <2>2. dst <= Len(others) + 1
        BY <1>11, <1>6
    <2>3. /\ \A i \in Nat \ {0} : i < dst => CellsAt(new, i) = CellsAt(others, i)
          /\ CellsAt(new, dst) = column
          /\ \A i \in Nat \ {0} : i > dst => CellsAt(new, i) = CellsAt(others, i - 1)
        BY ONLY <1>1, <1>4, <2>2, <2>1, InsertColumnIs
    <2> QED
        BY <2>1, <2>3
<1> HIDE DEF ukeys, ucells
<1>12. ASSUME NEW i \in 1 .. Len(keys) - 1
      PROVE  \E j \in 1 .. Len(keys) : rest[i] = keys[j] /\ CellsAt(others, i) = CellsAt(cells, j)
    <2>1. i \in Nat \ {0} /\ i \in 1 .. Len(keys) /\ i + 1 \in 1 .. Len(keys)
        BY <1>1
    <2> QED
        BY <1>3, <1>4, <2>1
<1>13. ASSUME Sheltered, NEW i \in 1 .. Len(ukeys)
       PROVE  \E j \in 1 .. Len(keys) : ukeys[i] = keys[j] /\ CellsAt(ucells, i) = CellsAt(cells, j)
    <2>1. i \in Nat \ {0} /\ i \in 1 .. Len(rest) + 1
        BY <1>1, <1>3, <1>9
    <2>2. CASE i < dst
        <3>1. i \in 1 .. Len(keys) - 1 /\ ukeys[i] = rest[i] /\ CellsAt(ucells, i) = CellsAt(others, i)
            BY <1>1, <1>3, <1>5, <1>9, <1>11, <1>13, <2>1, <2>2
        <3> QED
            BY <1>12, <3>1
    <2>3. CASE i = dst
        BY <1>9, <1>11, <1>13, <2>1, <2>3
    <2>4. CASE i > dst
        <3>1. /\ i - 1 \in 1 .. Len(keys) - 1 /\ ukeys[i] = rest[i - 1]
              /\ CellsAt(ucells, i) = CellsAt(others, i - 1)
            BY <1>1, <1>3, <1>5, <1>9, <1>11, <1>13, <2>1, <2>4
        <3> QED
            BY <1>12, <3>1
    <2> QED
        BY <1>1, <2>1, <2>2, <2>3, <2>4
<1>14. Sheltered => \A i \in 1 .. Len(ukeys) : CellsAt(ucells, i) = written[ukeys[i]]
    BY <1>13 DEF Agree
<1>15. Len(ucells) <= Len(ukeys) /\ (Sheltered => Len(ucells) = Len(ukeys))
    BY <1>1, <1>3, <1>4, <1>5, <1>9, <1>6, <1>10
<1>16. /\ length \in [ToSet(keys) -> Nat] /\ written \in [ToSet(keys) -> Seq(Values)]
       /\ \A k \in ToSet(keys) : length[k] = Len(written[k])
    BY DEF Agree
<1>17. Agree(ukeys, ucells, length, written)
    BY <1>8, <1>14, <1>15, <1>16, <1>10 DEF Agree
<1> QED
    BY <1>17 DEF ukeys, ucells, rest, others

LEMMA MovedSound ==
    ASSUME NEW t \in Tables, MayMove, NEW src \in 1 .. Len(t.keys), NEW dst \in 1 .. Len(t.keys)
    PROVE  Moved(t, src, dst) \in Tables
<1> DEFINE keys == InsertAt(RemoveAt(t.keys, src), dst, t.keys[src])
           cells == InsertColumn(RemoveColumn(t.cells, src), dst, CellsAt(t.cells, src))
<1>1. Agree(t.keys, t.cells, t.length, t.written) 
    BY DEF Tables, Sound
<1>2. Agree(keys, cells, t.length, t.written)
    BY <1>1, MovedAgree
<1>3. CellsAt(t.cells, src) = IF src <= Len(t.cells) THEN t.cells[src] ELSE << >>
    <2>1. src \in Nat \ {0} /\ Len(t.cells) \in Nat
        BY <1>1 DEF Agree, Columns
    <2> QED
        BY <2>1 DEF CellsAt
<1>4. Moved(t, src, dst) = [keys |-> keys, cells |-> cells, length |-> t.length, written |-> t.written]
    <2>1. t = [keys |-> t.keys, cells |-> t.cells, length |-> t.length, written |-> t.written]
        BY DEF Tables
    <2>2. Moved(t, src, dst) = [t EXCEPT !.keys = keys, !.cells = cells]
        BY <1>3 DEF Moved
    <2> HIDE DEF keys, cells
    <2> QED
        BY <2>1, <2>2
<1> HIDE DEF keys, cells
<1> QED
    BY <1>2, <1>4, TableMade DEF Sound

(* v has been written below the last cell of the column at.                *)
Appends(cells, new, at, v) ==
    /\ CellsAt(new, at) = Append(CellsAt(cells, at), v)
    /\ \A i \in Nat \ {0} : i # at => CellsAt(new, i) = CellsAt(cells, i)

LEMMA SetItemIs ==
    ASSUME NEW cells \in Columns, NEW at \in Nat \ {0}, NEW row, NEW v \in Values,
           row = Len(CellsAt(cells, at)) + 1
    PROVE  Appends(cells, SetItem(cells, row, at, v), at, v)
<1> DEFINE n == IF at > Len(cells) THEN at ELSE Len(cells)
           longer == Padded(cells, at, << >>)
<1>1. v \in Contents
    BY DEF Contents
<1>2. Len(cells) \in Nat /\ n \in Nat /\ at \in 1 .. n /\ Len(cells) <= n
    BY DEF Columns
<1>3. longer = [i \in 1 .. n |-> CellsAt(cells, i)]
    BY <1>2 DEF Padded, CellsAt
<1>4. \A i \in Nat \ {0} : CellsAt(cells, i) \in Seq(Contents)
    <2>1. << >> \in Seq(Contents)
        OBVIOUS
    <2> QED
        BY <2>1 DEF CellsAt, Columns
<1> HIDE DEF longer, n
<1>5. PICK old \in Seq(Contents) : old = CellsAt(cells, at)
    BY <1>4
<1>6. longer[at] = old
    BY <1>2, <1>3, <1>5
<1> DEFINE column == [Padded(old, row, Blank) EXCEPT ![row] = v]
<1>7. column = Append(old, v) /\ Append(old, v) \in Seq(Contents)
    <2>1. Len(old) \in Nat /\ row = Len(old) + 1 /\ row > Len(old)
        BY <1>5
    <2>2. Padded(old, row, Blank) = [i \in 1 .. row |-> IF i <= Len(old) THEN old[i] ELSE Blank]
        BY <2>1 DEF Padded
    <2>3. column = [i \in 1 .. row |-> IF i = row THEN v ELSE old[i]]
        <3>1. PICK p : p = Padded(old, row, Blank)
            OBVIOUS
        <3>2. p = [i \in 1 .. row |-> IF i <= Len(old) THEN old[i] ELSE Blank]
            BY <2>2, <3>1
        <3>3. [p EXCEPT ![row] = v] = [i \in 1 .. row |-> IF i = row THEN v ELSE p[i]]
            BY ONLY <3>2
        <3>4. \A i \in 1 .. row : i # row => p[i] = old[i]
            BY <2>1, <3>2
        <3>5. [p EXCEPT ![row] = v] = [i \in 1 .. row |-> IF i = row THEN v ELSE old[i]]
            BY ONLY <3>3, <3>4
        <3> QED
            BY <3>1, <3>5
    <2>4. /\ Append(old, v) \in Seq(Contents) /\ Len(Append(old, v)) = row
          /\ \A i \in 1 .. row : Append(old, v)[i] = IF i = row THEN v ELSE old[i]
        BY <1>1, <2>1
    <2>5. \A i \in 1 .. row : (IF i = row THEN v ELSE old[i]) \in Contents
        BY <1>1, <2>1
    <2>6. column \in Seq(Contents) /\ Len(column) = row
        <3>1. row \in Nat
            BY <2>1
        <3>2. [i \in 1 .. row |-> IF i = row THEN v ELSE old[i]] \in Seq(Contents)
            BY ONLY <2>5, <3>1
        <3>3. Len([i \in 1 .. row |-> IF i = row THEN v ELSE old[i]]) = row
            BY ONLY <3>1
        <3> QED
            BY ONLY <2>3, <3>2, <3>3
    <2>7. \A i \in 1 .. row : column[i] = IF i = row THEN v ELSE old[i]
        BY ONLY <2>3
    <2> HIDE DEF column
    <2> QED
        BY <2>4, <2>6, <2>7, SeqEqual
<1>8. SetItem(cells, row, at, v) = [i \in 1 .. n |-> IF i = at THEN column ELSE CellsAt(cells, i)]
    <2>1. SetItem(cells, row, at, v) = [longer EXCEPT ![at] = column]
        BY <1>6 DEF SetItem, longer
    <2> HIDE DEF column
    <2> QED
        BY <1>2, <1>3, <2>1
<1> HIDE DEF column
<1> DEFINE new == SetItem(cells, row, at, v)
<1>9. new \in Seq(Seq(Contents)) /\ Len(new) = n
    <2>1. \A i \in 1 .. n : (IF i = at THEN column ELSE CellsAt(cells, i)) \in Seq(Contents)
        BY <1>2, <1>4, <1>7
    <2> QED
        BY <1>2, <1>8, <2>1
<1> HIDE DEF new
<1>10. ASSUME NEW i \in Nat \ {0}
      PROVE  CellsAt(new, i) = IF i = at THEN Append(CellsAt(cells, at), v) ELSE CellsAt(cells, i)
    <2>1. CASE i \in 1 .. n
        <3>1. CellsAt(new, i) = new[i]
            BY <1>2, <1>9, <2>1 DEF CellsAt
        <3>2. new[i] = IF i = at THEN column ELSE CellsAt(cells, i)
            BY <1>8, <2>1 DEF new
        <3> QED
            BY <1>5, <1>7, <3>1, <3>2
    <2>2. CASE i \notin 1 .. n
        <3>1. i \notin 1 .. Len(cells) /\ i # at
            BY <1>2, <2>2
        <3> QED
            BY <1>9, <2>2, <3>1 DEF CellsAt
    <2> QED
        BY <2>1, <2>2
<1> QED
    BY <1>10 DEF new, Appends

LEMMA SetItemType ==
    ASSUME NEW cells \in Columns, NEW at \in Nat \ {0}, NEW row \in Nat \ {0}, NEW v \in Values
    PROVE  /\ SetItem(cells, row, at, v) \in Columns
           /\ Len(SetItem(cells, row, at, v)) = IF at > Len(cells) THEN at ELSE Len(cells)
<1> DEFINE n == IF at > Len(cells) THEN at ELSE Len(cells)
           longer == Padded(cells, at, << >>)
<1>1. Len(cells) \in Nat /\ n \in Nat /\ at \in 1 .. n
    BY DEF Columns
<1>2. longer = [i \in 1 .. n |-> CellsAt(cells, i)]
    BY <1>1 DEF Padded, CellsAt
<1>3. \A i \in Nat \ {0} : CellsAt(cells, i) \in Seq(Contents)
    <2>1. << >> \in Seq(Contents)
        OBVIOUS
    <2> QED
        BY <2>1 DEF CellsAt, Columns
<1> HIDE DEF longer, n
<1>4. PICK old \in Seq(Contents) : old = longer[at]
    BY <1>1, <1>2, <1>3
<1> DEFINE m == IF row > Len(old) THEN row ELSE Len(old)
           padded == Padded(old, row, Blank)
           column == [padded EXCEPT ![row] = v]
<1>5. m \in Nat /\ row \in 1 .. m /\ Len(old) \in Nat
    BY <1>4
<1>6. padded = [i \in 1 .. m |-> IF i <= Len(old) THEN old[i] ELSE Blank]
    BY DEF Padded
<1>7. \A i \in 1 .. m : padded[i] \in Contents
    <2>1. \A i \in 1 .. m : i <= Len(old) => old[i] \in Contents
        BY <1>5
    <2> HIDE DEF padded
    <2> QED
        BY <1>6, <2>1 DEF Contents
<1> HIDE DEF padded, m
<1>8. column = [i \in 1 .. m |-> IF i = row THEN v ELSE padded[i]]
    BY <1>6
<1>9. column \in Seq(Contents)
    <2>1. \A i \in 1 .. m : (IF i = row THEN v ELSE padded[i]) \in Contents
        BY <1>7 DEF Contents
    <2>2. PICK s : s = [i \in 1 .. m |-> IF i = row THEN v ELSE padded[i]]
        OBVIOUS
    <2>3. s \in Seq(Contents)
        BY ONLY <1>5, <2>1, <2>2
    <2> QED
        BY ONLY <1>8, <2>2, <2>3
<1>10. SetItem(cells, row, at, v) = [i \in 1 .. n |-> IF i = at THEN column ELSE CellsAt(cells, i)]
    <2>1. SetItem(cells, row, at, v) = [longer EXCEPT ![at] = column]
        BY <1>4 DEF SetItem, longer, padded
    <2> HIDE DEF column
    <2> QED
        BY <1>1, <1>2, <2>1
<1> HIDE DEF column
<1>11. \A i \in 1 .. n : (IF i = at THEN column ELSE CellsAt(cells, i)) \in Seq(Contents)
    BY <1>1, <1>3, <1>9
<1>12. SetItem(cells, row, at, v) \in Seq(Seq(Contents)) /\ Len(SetItem(cells, row, at, v)) = n
    BY <1>1, <1>10, <1>11
<1> QED
    BY <1>12 DEF n, Columns

LEMMA WrittenAgree ==
    ASSUME NEW keys, NEW cells, NEW length, NEW written, Agree(keys, cells, length, written),
           NEW at \in 1 .. Len(keys), NEW v \in Values, NEW k, k = keys[at]
    PROVE  Agree(keys, SetItem(cells, length[k] + 1, at, v), [length EXCEPT ![k] = @ + 1],
                 [written EXCEPT ![k] = Append(@, v)])
<1> DEFINE row == length[k] + 1
           ucells == SetItem(cells, row, at, v)
           ulength == [length EXCEPT ![k] = @ + 1]
           uwritten == [written EXCEPT ![k] = Append(@, v)]
<1>1. /\ keys \in Seq(Keys) /\ Distinct(keys) /\ Len(keys) \in Nat /\ cells \in Columns
      /\ at \in Nat \ {0} /\ k \in ToSet(keys) /\ Len(cells) \in Nat
      /\ \A i \in 1 .. Len(keys) : keys[i] \in ToSet(keys) /\ (keys[i] = k => i = at)
    BY ToSetIs DEF Agree, Distinct, Columns
<1>2. /\ length \in [ToSet(keys) -> Nat] /\ written \in [ToSet(keys) -> Seq(Values)]
      /\ \A q \in ToSet(keys) : length[q] = Len(written[q])
      /\ Sheltered => \A i \in 1 .. Len(keys) : CellsAt(cells, i) = written[keys[i]]
    BY DEF Agree
<1>3. row \in Nat \ {0} /\ (Sheltered => row = Len(CellsAt(cells, at)) + 1)
    BY <1>1, <1>2
<1> HIDE DEF row
<1>4. /\ ucells \in Columns
       /\ Len(ucells) = IF at > Len(cells) THEN at ELSE Len(cells)
    BY <1>1, <1>3, SetItemType
<1>5. ASSUME Sheltered
      PROVE  /\ CellsAt(ucells, at) = Append(CellsAt(cells, at), v)
             /\ \A i \in Nat \ {0} : i # at => CellsAt(ucells, i) = CellsAt(cells, i)
    <2>1. PICK r : r = row
        OBVIOUS
    <2>2. r = Len(CellsAt(cells, at)) + 1
        BY <1>3, <1>5, <2>1
    <2>3. Appends(cells, SetItem(cells, r, at, v), at, v)
        BY <1>1, <2>2, SetItemIs
    <2> QED
        BY <2>1, <2>3 DEF Appends
<1>6. written[k] \in Seq(Values) /\ length[k] \in Nat /\ Len(written[k]) = length[k]
    BY <1>1, <1>2
<1>7. /\ ulength \in [ToSet(keys) -> Nat] /\ ulength[k] = length[k] + 1
      /\ \A q \in ToSet(keys) \ {k} : ulength[q] = length[q]
    BY <1>1, <1>2, <1>6
<1>8. /\ uwritten \in [ToSet(keys) -> Seq(Values)] /\ uwritten[k] = Append(written[k], v)
      /\ \A q \in ToSet(keys) \ {k} : uwritten[q] = written[q]
    <2>1. Append(written[k], v) \in Seq(Values)
        BY <1>6
    <2> QED
        BY <1>1, <1>2, <2>1
<1> HIDE DEF ucells, ulength, uwritten
<1>9. ASSUME Sheltered, NEW i \in 1 .. Len(keys) PROVE CellsAt(ucells, i) = uwritten[keys[i]]
    <2>1. i \in Nat \ {0} /\ keys[i] \in ToSet(keys)
        BY <1>1
    <2>2. CASE i = at
        BY <1>2, <1>5, <1>8, <1>9, <2>1, <2>2
    <2>3. CASE i # at
        BY <1>1, <1>2, <1>5, <1>8, <1>9, <2>1, <2>3
    <2> QED
        BY <2>2, <2>3
<1>10. ASSUME NEW q \in ToSet(keys) PROVE ulength[q] = Len(uwritten[q])
    <2>1. Len(Append(written[k], v)) = length[k] + 1
        BY <1>6
    <2> QED
        BY <1>2, <1>7, <1>8, <2>1
<1>11. Len(ucells) <= Len(keys) /\ (Sheltered /\ MayMove => Len(ucells) = Len(keys))
    <2>1. Len(cells) <= Len(keys) /\ (Sheltered /\ MayMove => Len(cells) = Len(keys))
        BY DEF Agree
    <2> QED
        BY <1>1, <1>4, <2>1
<1>12. Agree(keys, ucells, ulength, uwritten)
    BY <1>1, <1>7, <1>8, <1>9, <1>10, <1>11, <1>4 DEF Agree
<1> QED
    BY <1>12 DEF ucells, ulength, uwritten, row

LEMMA ClearedAgree ==
    ASSUME NEW keys, NEW cells, NEW length, NEW written, Agree(keys, cells, length, written),
           MayClear
    PROVE  Agree(keys, << >>, [k \in DOMAIN length |-> 0], [k \in DOMAIN written |-> << >>])
<1>1. DOMAIN length = ToSet(keys) /\ DOMAIN written = ToSet(keys) /\ keys \in Seq(Keys)
    BY DEF Agree
<1>2. << >> \in Columns /\ << >> \in Seq(Values) /\ Len(<< >>) = 0
    BY DEF Columns
<1>3. \A i \in 1 .. Len(keys) : keys[i] \in ToSet(keys) /\ CellsAt(<< >>, i) = << >>
    BY <1>1, <1>2, ToSetIs DEF CellsAt
<1>4. Len(keys) \in Nat
    BY <1>1
<1> QED
    BY <1>1, <1>2, <1>3, <1>4 DEF Agree, Sheltered

(* What is pushed; columns are moved only where they may be. *)
Ops == {op \in [kind : {"insert", "remove", "rename", "move"}, key : Keys, other : Keys, at : Nat] :
           op.kind = "move" => MayMove}

(* What applying op to t may come to. *)
Comes(t, op, r) == /\ r.ok \in BOOLEAN /\ r.table \in Tables /\ r.op \in Ops
                   /\ r.op.kind = op.kind
                   /\ ~r.ok => r.table = t

LEMMA RefusedComes ==
    ASSUME NEW t \in Tables, NEW op \in Ops
    PROVE  Comes(t, op, Refused(t, op))
BY DEF Comes, Refused

LEMMA SucceedsComes ==
    ASSUME NEW t, NEW u \in Tables, NEW op \in Ops
    PROVE  Comes(t, op, Succeeds(u, op))
BY DEF Comes, Succeeds

LEMMA PutInComes ==
    ASSUME NEW t \in Tables, NEW op \in Ops
    PROVE  Comes(t, op, PutIn(t, op))
<1>1. op.key \in Keys
    BY DEF Ops
<1>2. CASE ~Has(t, op.key) /\ op.at \in 1 .. Len(t.keys) + 1
    <2>1. Inserted(t, op.at, op.key) \in Tables
        BY <1>1, <1>2, InsertedSound
    <2> QED
        BY <1>2, <2>1, SucceedsComes DEF PutIn
<1>3. CASE ~(~Has(t, op.key) /\ op.at \in 1 .. Len(t.keys) + 1)
    BY <1>3, RefusedComes DEF PutIn
<1> QED
    BY <1>2, <1>3

LEMMA PlacedOp ==
    ASSUME NEW op \in Ops, NEW at \in Nat
    PROVE  [op EXCEPT !.at = at] \in Ops /\ [op EXCEPT !.at = at].kind = op.kind
BY DEF Ops

LEMMA IndexNat ==
    ASSUME NEW t \in Tables, NEW k
    PROVE  Index(t, k) \in Nat
<1>1. CASE Has(t, k)
    <2>1. t.keys \in Seq(Keys) /\ Distinct(t.keys)
        BY DEF Tables, Sound, Agree
    <2> QED
        BY <1>1, <2>1, IndexIs
<1>2. CASE ~Has(t, k)
    BY <1>2 DEF Index
<1> QED
    BY <1>1, <1>2

LEMMA TakeOutComes ==
    ASSUME NEW t \in Tables, NEW op \in Ops
    PROVE  Comes(t, op, TakeOut(t, op))
<1> DEFINE placed == [op EXCEPT !.at = Index(t, op.key)]
<1>1. placed \in Ops /\ placed.kind = op.kind
    BY PlacedOp, IndexNat
<1>2. TakeOut(t, op) = IF Has(t, op.key) THEN Succeeds(Removed(t, op.key), placed)
                       ELSE Refused(t, placed)
    BY DEF TakeOut
<1> HIDE DEF placed
<1>3. CASE Has(t, op.key)
    <2>1. Removed(t, op.key) \in Tables
        BY <1>3, RemovedSound
    <2>2. Comes(t, placed, TakeOut(t, op))
        BY <1>1, <1>2, <1>3, <2>1, SucceedsComes
    <2> QED
        BY <1>1, <2>2 DEF Comes
<1>4. CASE ~Has(t, op.key)
    <2>1. Comes(t, placed, TakeOut(t, op))
        BY <1>1, <1>2, <1>4, RefusedComes
    <2> QED
        BY <1>1, <2>1 DEF Comes
<1> QED
    BY <1>3, <1>4

LEMMA RenameComes ==
    ASSUME NEW t \in Tables, NEW op \in Ops, NEW old \in Keys, NEW new \in Keys
    PROVE  Comes(t, op, Rename(t, op, old, new))
<1>1. CASE Has(t, old) /\ ~Has(t, new)
    <2>1. Renamed(t, old, new) \in Tables
        BY <1>1, RenamedSound
    <2> QED
        BY <1>1, <2>1, SucceedsComes DEF Rename
<1>2. CASE ~(Has(t, old) /\ ~Has(t, new))
    BY <1>2, RefusedComes DEF Rename
<1> QED
    BY <1>1, <1>2

LEMMA MoveComes ==
    ASSUME NEW t \in Tables, NEW op \in Ops, op.kind = "move", NEW dst
    PROVE  Comes(t, op, Move(t, op, dst))
<1>1. /\ MayMove /\ t.keys \in Seq(Keys) /\ Distinct(t.keys)
      /\ DOMAIN t.keys = 1 .. Len(t.keys)
    BY DEF Ops, Tables, Sound, Agree
<1>2. CASE Has(t, op.key) /\ dst \in DOMAIN t.keys
    <2>1. Index(t, op.key) \in 1 .. Len(t.keys)
        BY <1>1, <1>2, IndexIs
    <2>2. Moved(t, Index(t, op.key), dst) \in Tables
        BY <1>1, <1>2, <2>1, MovedSound
    <2> QED
        BY <1>2, <2>2, SucceedsComes DEF Move
<1>3. CASE ~(Has(t, op.key) /\ dst \in DOMAIN t.keys)
    BY <1>3, RefusedComes DEF Move
<1> QED
    BY <1>2, <1>3

LEMMA ApplyComes ==
    ASSUME NEW t \in Tables, NEW op \in Ops, NEW redo \in BOOLEAN
    PROVE  Comes(t, op, Apply(t, op, redo))
<1>1. op.key \in Keys /\ op.other \in Keys
    BY DEF Ops
<1>2. CASE op.kind = "insert"
    <2>1. Apply(t, op, redo) = IF redo THEN PutIn(t, op) ELSE TakeOut(t, op)
        BY <1>2 DEF Apply
    <2> QED
        BY <2>1, PutInComes, TakeOutComes
<1>3. CASE op.kind = "remove"
    <2>1. Apply(t, op, redo) = IF redo THEN TakeOut(t, op) ELSE PutIn(t, op)
        BY <1>3 DEF Apply
    <2> QED
        BY <2>1, PutInComes, TakeOutComes
<1>4. CASE op.kind = "rename"
    <2>1. Apply(t, op, redo) = IF redo THEN Rename(t, op, op.key, op.other)
                               ELSE Rename(t, op, op.other, op.key)
        BY <1>4 DEF Apply
    <2> QED
        BY <1>1, <2>1, RenameComes
<1>5. CASE op.kind = "move"
    <2>1. Apply(t, op, redo) = Move(t, op, IF redo THEN Index(t, op.other) ELSE op.at)
        BY <1>5 DEF Apply
    <2> QED
        BY <1>5, <2>1, MoveComes
<1> QED
    BY <1>2, <1>3, <1>4, <1>5 DEF Ops

LEMMA RemoveInserted ==
    ASSUME NEW S, NEW s \in Seq(S), NEW at \in 1 .. Len(s) + 1, NEW e \in S
    PROVE  RemoveAt(InsertAt(s, at, e), at) = s
<1> DEFINE new == InsertAt(s, at, e)
           back == RemoveAt(new, at)
<1>1. Len(s) \in Nat /\ at \in Nat
    OBVIOUS
<1>2. /\ new \in Seq(S) /\ Len(new) = Len(s) + 1
      /\ \A i \in 1 .. Len(s) + 1 :
            new[i] = IF i < at THEN s[i] ELSE IF i = at THEN e ELSE s[i - 1]
    BY ONLY s \in Seq(S), at \in 1 .. Len(s) + 1, e \in S, InsertAtIs
<1> HIDE DEF new
<1>3. at \in 1 .. Len(new)
    BY <1>1, <1>2
<1>4. /\ back \in Seq(S) /\ Len(back) = Len(new) - 1
      /\ \A i \in 1 .. Len(new) - 1 : back[i] = IF i < at THEN new[i] ELSE new[i + 1]
    BY <1>2, <1>3, RemoveAtIs
<1> HIDE DEF back
<1>5. ASSUME NEW i \in 1 .. Len(s) PROVE back[i] = s[i]
    <2>1. i \in 1 .. Len(new) - 1 /\ i \in 1 .. Len(s) + 1 /\ i + 1 \in 1 .. Len(s) + 1
        BY <1>1, <1>2
    <2>2. CASE i < at
        BY <1>2, <1>4, <2>1, <2>2
    <2>3. CASE ~(i < at)
        <3>1. ~(i + 1 < at) /\ i + 1 # at /\ (i + 1) - 1 = i
            BY <1>1, <2>3
        <3> QED
            BY <1>2, <1>4, <2>1, <2>3, <3>1
    <2> QED
        BY <2>2, <2>3
<1>6. Len(back) = Len(s)
    BY <1>1, <1>2, <1>4
<1>7. back = s
    BY <1>4, <1>5, <1>6, SeqEqual
<1> QED
    BY <1>7 DEF back, new

LEMMA InsertRemoved ==
    ASSUME NEW S, NEW s \in Seq(S), NEW at \in 1 .. Len(s)
    PROVE  InsertAt(RemoveAt(s, at), at, s[at]) = s
<1> DEFINE new == RemoveAt(s, at)
           back == InsertAt(new, at, s[at])
<1>1. Len(s) \in Nat /\ at \in Nat
    OBVIOUS
<1>2. /\ new \in Seq(S) /\ Len(new) = Len(s) - 1
      /\ \A i \in 1 .. Len(s) - 1 : new[i] = IF i < at THEN s[i] ELSE s[i + 1]
    BY RemoveAtIs
<1> HIDE DEF new
<1>3. at \in 1 .. Len(new) + 1
    BY <1>1, <1>2
<1>4. PICK e \in S : e = s[at]
    OBVIOUS
<1>5. LET b == InsertAt(new, at, e)
      IN  /\ b \in Seq(S) /\ Len(b) = Len(new) + 1
          /\ \A i \in 1 .. Len(new) + 1 :
                b[i] = IF i < at THEN new[i] ELSE IF i = at THEN e ELSE new[i - 1]
    <2>1. PICK r \in Seq(S) : r = new
        BY <1>2
    <2>2. PICK i \in 1 .. Len(r) + 1 : i = at
        BY <1>3, <2>1
    <2>3. /\ InsertAt(r, i, e) \in Seq(S) /\ Len(InsertAt(r, i, e)) = Len(r) + 1
          /\ \A j \in 1 .. Len(r) + 1 :
                InsertAt(r, i, e)[j] = IF j < i THEN r[j] ELSE IF j = i THEN e ELSE r[j - 1]
        BY InsertAtIs
    <2> QED
        BY <2>1, <2>2, <2>3
<1>6. /\ back \in Seq(S) /\ Len(back) = Len(new) + 1
      /\ \A i \in 1 .. Len(new) + 1 :
            back[i] = IF i < at THEN new[i] ELSE IF i = at THEN e ELSE new[i - 1]
    BY <1>4, <1>5
<1> HIDE DEF back
<1>7. ASSUME NEW i \in 1 .. Len(s) PROVE back[i] = s[i]
    <2>1. i \in 1 .. Len(new) + 1
        BY <1>1, <1>2
    <2>2. CASE i < at
        <3>1. i \in 1 .. Len(s) - 1
            BY <1>1, <2>2
        <3> QED
            BY <1>2, <1>6, <2>1, <2>2, <3>1
    <2>3. CASE i = at
        BY <1>1, <1>4, <1>6, <2>1, <2>3
    <2>4. CASE i > at
        <3>1. i - 1 \in 1 .. Len(s) - 1 /\ ~(i - 1 < at) /\ (i - 1) + 1 = i /\ ~(i < at) /\ i # at
            BY <1>1, <2>4
        <3> QED
            BY <1>2, <1>6, <2>1, <3>1
    <2> QED
        BY <1>1, <2>2, <2>3, <2>4
<1>8. Len(back) = Len(s)
    BY <1>1, <1>2, <1>6
<1>9. back = s
    BY <1>6, <1>7, <1>8, SeqEqual
<1> QED
    BY <1>9 DEF back, new

(* op is accepted where the keys are from, and leaves those in to.         *)
Leads(op, redo, from, to) ==
    \A u \in Tables : u.keys = from =>
        Apply(u, op, redo).ok /\ Apply(u, op, redo).table.keys = to

(* The tools of the agent insert and remove. *)
Steps == {op \in Ops : op.kind \in {"insert", "remove"}}

LEMMA StepIs ==
    ASSUME NEW op \in Steps, NEW redo \in BOOLEAN
    PROVE  \/ /\ \A u : Apply(u, op, redo) = PutIn(u, op)
              /\ \A u, p : p.kind = op.kind => Apply(u, p, ~redo) = TakeOut(u, p)
           \/ /\ \A u : Apply(u, op, redo) = TakeOut(u, op)
              /\ \A u, p : p.kind = op.kind => Apply(u, p, ~redo) = PutIn(u, p)
<1>1. CASE op.kind = "insert"
    <2>1. \A u, p, r : p.kind = "insert" => Apply(u, p, r) = IF r THEN PutIn(u, p) ELSE TakeOut(u, p)
        BY DEF Apply
    <2>2. CASE redo
        BY <1>1, <2>1, <2>2
    <2>3. CASE ~redo
        BY <1>1, <2>1, <2>3
    <2> QED
        BY <2>2, <2>3
<1>2. CASE op.kind = "remove"
    <2>1. \A u, p, r : p.kind = "remove" => Apply(u, p, r) = IF r THEN TakeOut(u, p) ELSE PutIn(u, p)
        BY DEF Apply
    <2>2. CASE redo
        BY <1>2, <2>1, <2>2
    <2>3. CASE ~redo
        BY <1>2, <2>1, <2>3
    <2> QED
        BY <2>2, <2>3
<1> QED
    BY <1>1, <1>2 DEF Steps

(* What an accepted step did, its opposite takes back. *)
LEMMA ApplyReversed ==
    ASSUME NEW t \in Tables, NEW op \in Steps, NEW redo \in BOOLEAN, Apply(t, op, redo).ok
    PROVE  Leads(Apply(t, op, redo).op, ~redo, Apply(t, op, redo).table.keys, t.keys)
<1>1. /\ t.keys \in Seq(Keys) /\ Distinct(t.keys) /\ op \in Ops /\ op.key \in Keys
      /\ op.at \in Nat
    BY DEF Tables, Sound, Agree, Steps, Ops
<1>2. CASE /\ \A u : Apply(u, op, redo) = PutIn(u, op)
           /\ \A u, p : p.kind = op.kind => Apply(u, p, ~redo) = TakeOut(u, p)
    <2>1. ~Has(t, op.key) /\ op.at \in 1 .. Len(t.keys) + 1
        BY <1>2 DEF PutIn, Refused
    <2>2. Apply(t, op, redo) = Succeeds(Inserted(t, op.at, op.key), op)
        BY <1>2, <2>1 DEF PutIn
    <2> DEFINE keys == InsertAt(t.keys, op.at, op.key)
    <2>3. Apply(t, op, redo).op = op /\ Apply(t, op, redo).table.keys = keys
        BY <2>2 DEF Succeeds, Inserted
    <2>4. op.key \notin ToSet(t.keys)
        BY <2>1 DEF Has
    <2>5. keys \in Seq(Keys) /\ Distinct(keys) /\ op.key \in ToSet(keys)
        BY <1>1, <2>1, <2>4, InsertedKeys
    <2>6. PICK k \in Keys, at \in 1 .. Len(t.keys) + 1 : k = op.key /\ at = op.at
        BY <1>1, <2>1
    <2>7. at \in 1 .. Len(keys) /\ keys[at] = k
        <3>1. /\ Len(InsertAt(t.keys, at, k)) = Len(t.keys) + 1
              /\ InsertAt(t.keys, at, k)[at] = k
            <4>1. at \in 1 .. Len(t.keys) + 1 /\ ~(at < at) /\ t.keys \in Seq(Keys) /\ k \in Keys
                BY <1>1
            <4> QED
                BY ONLY <4>1, InsertAtIs
        <3> QED
            BY <2>6, <3>1
    <2>8. RemoveAt(keys, at) = t.keys
        BY <1>1, <2>6, RemoveInserted
    <2> HIDE DEF keys
    <2>9. ASSUME NEW u \in Tables, u.keys = keys
          PROVE  Apply(u, op, ~redo).ok /\ Apply(u, op, ~redo).table.keys = t.keys
        <3>1. Has(u, k)
            BY <2>5, <2>6, <2>9 DEF Has
        <3>2. Index(u, k) = at
            BY <2>5, <2>7, <2>9, <3>1, IndexIs
        <3>3. Apply(u, op, ~redo) = Succeeds(Removed(u, k), [op EXCEPT !.at = Index(u, k)])
            BY <1>2, <2>6, <3>1 DEF TakeOut
        <3> QED
            BY <2>8, <2>9, <3>2, <3>3 DEF Succeeds, Removed
    <2> QED
        BY <2>3, <2>9 DEF Leads
<1>3. CASE /\ \A u : Apply(u, op, redo) = TakeOut(u, op)
           /\ \A u, p : p.kind = op.kind => Apply(u, p, ~redo) = PutIn(u, p)
    <2> DEFINE at == Index(t, op.key)
               placed == [op EXCEPT !.at = at]
               keys == RemoveAt(t.keys, at)
    <2>1. TakeOut(t, op) = IF Has(t, op.key) THEN Succeeds(Removed(t, op.key), placed)
                           ELSE Refused(t, placed)
        BY DEF TakeOut
    <2>2. Apply(t, op, redo) = TakeOut(t, op) /\ ~Refused(t, placed).ok
        BY <1>3 DEF Refused
    <2> HIDE DEF placed
    <2>3. Has(t, op.key)
        BY <2>1, <2>2
    <2>4. Apply(t, op, redo) = Succeeds(Removed(t, op.key), placed)
        BY <2>3, <2>1, <2>2
    <2>5. Apply(t, op, redo).op = placed /\ Apply(t, op, redo).table.keys = keys
        BY <2>4 DEF Succeeds, Removed
    <2>6. placed.kind = op.kind /\ placed.at = at /\ placed.key = op.key
        BY <1>1 DEF Ops, placed
    <2>7. at \in 1 .. Len(t.keys) /\ t.keys[at] = op.key
        BY <1>1, <2>3, IndexIs
    <2> HIDE DEF at, placed
    <2>8. Len(keys) = Len(t.keys) - 1 /\ op.key \notin ToSet(keys)
        <3>1. ToSet(keys) = ToSet(t.keys) \ {t.keys[at]}
            BY <1>1, <2>7, RemovedKeys
        <3>2. Len(keys) = Len(t.keys) - 1
            BY <1>1, <2>7, RemoveAtIs
        <3> QED
            BY <2>7, <3>1, <3>2
    <2>9. InsertAt(keys, at, op.key) = t.keys
        <3>1. InsertAt(RemoveAt(t.keys, at), at, t.keys[at]) = t.keys
            BY ONLY <1>1, <2>7, InsertRemoved
        <3> QED
            BY <2>7, <3>1
    <2> HIDE DEF keys
    <2>10. at \in 1 .. Len(keys) + 1
        BY <1>1, <2>7, <2>8
    <2>11. ASSUME NEW u \in Tables, u.keys = keys
          PROVE  Apply(u, placed, ~redo).ok /\ Apply(u, placed, ~redo).table.keys = t.keys
        <3>1. ~Has(u, placed.key) /\ placed.at \in 1 .. Len(u.keys) + 1
            BY <2>6, <2>8, <2>10, <2>11 DEF Has
        <3>2. Apply(u, placed, ~redo) = Succeeds(Inserted(u, placed.at, placed.key), placed)
            BY <1>3, <2>6, <3>1 DEF PutIn
        <3> QED
            BY <2>6, <2>9, <2>11, <3>2 DEF Succeeds, Inserted
    <2> QED
        BY <2>5, <2>11 DEF Leads
<1> QED
    BY <1>2, <1>3, StepIs

(* Induction over the numbers, with a set in place of the predicate. *)
LEMMA SetInduction ==
    ASSUME NEW S, 0 \in S, \A n \in Nat : n \in S => n + 1 \in S
    PROVE  \A n \in Nat : n \in S
<1> DEFINE T == Nat \ S
<1> SUFFICES ASSUME T # {} PROVE FALSE
    OBVIOUS
<1>1. T \subseteq Nat
    OBVIOUS
<1>2. PICK x \in T : \A y \in T : ~(<<y, x>> \in OpToRel(<, Nat))
    <2> HIDE DEF T
    <2> QED
        BY <1>1, NatLessThanWellFounded, WFMin
<1>3. x \in Nat /\ x # 0 /\ x - 1 \in Nat /\ x - 1 < x
    OBVIOUS
<1>4. <<x - 1, x>> \in OpToRel(<, Nat)
    BY <1>3 DEF OpToRel
<1>5. x - 1 \in T
    BY <1>3
<1> QED
    BY <1>2, <1>4, <1>5

(***************************************************************************)
(* The folds of Attempt and Compensate, as functions of the sets of the    *)
(* positions that are done.                                                *)
(***************************************************************************)

IsFold(f, n, base, next) ==
    \A s \in SUBSET (1 .. n) :
       f[s] = IF s = {} THEN base ELSE next[<<Max(s), f[s \ {Max(s)}]>>]

LEMMA FoldExists ==
    ASSUME NEW n \in Nat, NEW R, NEW base \in R, NEW next \in [(1 .. n) \X R -> R]
    PROVE  \E f \in [SUBSET (1 .. n) -> R] : IsFold(f, n, base, next)
<1> DEFINE Folds(k, f) == \A s \in SUBSET (1 .. k) :
                             f[s] = IF s = {} THEN base ELSE next[<<Max(s), f[s \ {Max(s)}]>>]
           Found(k) == \E f \in [SUBSET (1 .. k) -> R] : Folds(k, f)
           S == {k \in Nat : k <= n => Found(k)}
<1> HIDE DEF Folds, Found
<1>1. 0 \in S
    <2> DEFINE f == [s \in SUBSET (1 .. 0) |-> base]
    <2>1. \A s \in SUBSET (1 .. 0) : s = {}
        OBVIOUS
    <2>2. f \in [SUBSET (1 .. 0) -> R] /\ Folds(0, f)
        BY <2>1 DEF Folds
    <2> HIDE DEF f
    <2>3. Found(0)
        BY <2>2 DEF Found
    <2> QED
        BY <2>3
<1>2. ASSUME NEW k \in Nat, k \in S PROVE k + 1 \in S
    <2> SUFFICES ASSUME k + 1 <= n PROVE Found(k + 1)
        OBVIOUS
    <2>1. k + 1 \in 1 .. n /\ k + 1 \in 1 .. k + 1 /\ k <= n
        BY ONLY n \in Nat, k \in Nat, k + 1 <= n
    <2>2. PICK f \in [SUBSET (1 .. k) -> R] : Folds(k, f)
        BY <1>2, <2>1 DEF Found
    <2> DEFINE g == [s \in SUBSET (1 .. k + 1) |->
                       IF k + 1 \in s THEN next[<<k + 1, f[s \ {k + 1}]>>] ELSE f[s]]
    <2>3. ASSUME NEW s \in SUBSET (1 .. k + 1)
          PROVE  /\ s \ {k + 1} \in SUBSET (1 .. k)
                 /\ k + 1 \notin s => s \in SUBSET (1 .. k)
        OBVIOUS
    <2>4. g \in [SUBSET (1 .. k + 1) -> R]
        <3>1. ASSUME NEW s \in SUBSET (1 .. k + 1)
              PROVE  (IF k + 1 \in s THEN next[<<k + 1, f[s \ {k + 1}]>>] ELSE f[s]) \in R
            BY <2>1, <2>3
        <3> QED
            BY <3>1
    <2>5. \A s \in SUBSET (1 .. k) : s \in SUBSET (1 .. k + 1) /\ g[s] = f[s]
        <3>1. ASSUME NEW s \in SUBSET (1 .. k) PROVE s \in SUBSET (1 .. k + 1) /\ k + 1 \notin s
            OBVIOUS
        <3> QED
            BY <3>1
    <2>6. ASSUME NEW s \in SUBSET (1 .. k + 1)
          PROVE  g[s] = IF s = {} THEN base ELSE next[<<Max(s), g[s \ {Max(s)}]>>]
        <3>1. CASE k + 1 \in s
            <4>1. Max(s) = k + 1
                <5>1. \A y \in s : k + 1 >= y
                    OBVIOUS
                <5>2. \A x \in s : (\A y \in s : x >= y) => x = k + 1
                    BY <3>1, <5>1
                <5> QED
                    BY <3>1, <5>1, <5>2 DEF Max
            <4>2. g[s] = next[<<k + 1, f[s \ {k + 1}]>>]
                BY <3>1
            <4>3. g[s \ {k + 1}] = f[s \ {k + 1}]
                BY <2>3, <2>5
            <4> HIDE DEF g
            <4> QED
                BY <3>1, <4>1, <4>2, <4>3
        <3>2. CASE k + 1 \notin s
            <4>1. s \in SUBSET (1 .. k) /\ s \ {Max(s)} \in SUBSET (1 .. k)
                BY <2>3, <3>2
            <4>2. g[s] = f[s] /\ g[s \ {Max(s)}] = f[s \ {Max(s)}]
                BY <2>5, <4>1
            <4>3. f[s] = IF s = {} THEN base ELSE next[<<Max(s), f[s \ {Max(s)}]>>]
                BY <2>2, <4>1 DEF Folds
            <4> HIDE DEF g
            <4> QED
                BY <4>2, <4>3
        <3> QED
            BY <3>1, <3>2
    <2> HIDE DEF g
    <2> QED
        BY <2>4, <2>6 DEF Folds, Found
<1> HIDE DEF S
<1>3. \A k \in Nat : k \in S
    BY <1>1, <1>2, SetInduction
<1>4. Found(n)
    BY <1>3 DEF S
<1> QED
    BY <1>4 DEF Folds, Found, IsFold

LEMMA MaxIn ==
    ASSUME NEW n \in Nat, NEW s \in SUBSET (1 .. n), s # {}
    PROVE  Max(s) \in s
<1> DEFINE Largest(q) == \E x \in q : \A y \in q : x >= y
           S == {k \in Nat : \A q \in SUBSET (1 .. k) : q # {} => Largest(q)}
<1>1. 0 \in S
    <2>1. \A q \in SUBSET (1 .. 0) : q = {}
        OBVIOUS
    <2> HIDE DEF Largest
    <2> QED
        BY <2>1
<1>2. ASSUME NEW k \in Nat, k \in S PROVE k + 1 \in S
    <2>1. ASSUME NEW q \in SUBSET (1 .. k + 1), q # {} PROVE Largest(q)
        <3>1. CASE k + 1 \in q
            <4>1. \A y \in q : k + 1 >= y
                OBVIOUS
            <4> QED
                BY <3>1, <4>1
        <3>2. CASE k + 1 \notin q
            <4>1. q \in SUBSET (1 .. k)
                BY <3>2
            <4> QED
                BY <1>2, <2>1, <4>1
        <3> QED
            BY <3>1, <3>2
    <2> HIDE DEF Largest
    <2> QED
        BY <2>1
<1> HIDE DEF S
<1>3. \A k \in Nat : k \in S
    BY <1>1, <1>2, SetInduction
<1>4. Largest(s)
    BY <1>3 DEF S
<1> QED
    BY <1>4 DEF Max

LEMMA MaxUpTo ==
    ASSUME NEW k \in Nat \ {0}
    PROVE  Max(1 .. k) = k /\ (1 .. k) \ {k} = 1 .. k - 1
<1>1. k \in 1 .. k /\ \A y \in 1 .. k : k >= y
    OBVIOUS
<1>2. \A x \in 1 .. k : (\A y \in 1 .. k : x >= y) => x = k
    BY <1>1
<1>3. (1 .. k) \ {k} = 1 .. k - 1
    OBVIOUS
<1> QED
    BY <1>1, <1>2, <1>3 DEF Max

(***************************************************************************)
(* What comes of a group.                                                  *)
(***************************************************************************)

Runs(n) == [table : Tables, ops : {s \in Seq(Steps) : Len(s) = n}, ok : BOOLEAN,
            done : Seq(1 .. n), lost : SUBSET (1 .. n)]

(* From one run to the next: step i has been tried. *)
LEMMA TriedIs ==
    ASSUME NEW n \in Nat, NEW run \in Runs(n), NEW i \in 1 .. n, NEW redo \in BOOLEAN,
           NEW r \in Tried(run, i, redo)
    PROVE  /\ r \in Runs(n)
           /\ r.done = run.done /\ r.lost = run.lost
           /\ \A j \in 1 .. n : j # i => r.ops[j] = run.ops[j]
           /\ ~r.ok => r.table = run.table
           /\ r.ok => Leads(r.ops[i], ~redo, r.table.keys, run.table.keys)
           /\ \A from, to : Leads(run.ops[i], redo, from, to) /\ run.table.keys = from =>
                               r.ok /\ r.table.keys = to
<1> DEFINE a == Apply(run.table, run.ops[i], redo)
<1>1. /\ run.table \in Tables /\ run.ops \in Seq(Steps) /\ Len(run.ops) = n
      /\ run.ops[i] \in Steps /\ run.ops[i] \in Ops
    BY DEF Runs, Steps
<1>2. Comes(run.table, run.ops[i], a)
    BY <1>1, ApplyComes
<1>3. a.op \in Steps /\ a.table \in Tables /\ a.ok \in BOOLEAN
    BY <1>1, <1>2 DEF Comes, Steps
<1>4. r = [run EXCEPT !.table = a.table, !.ops[i] = a.op, !.ok = a.ok]
    BY DEF Tried
<1>5. a.ok => Leads(a.op, ~redo, a.table.keys, run.table.keys)
    BY <1>1, ApplyReversed
<1>6. \A from, to : Leads(run.ops[i], redo, from, to) /\ run.table.keys = from =>
                               a.ok /\ a.table.keys = to
    BY <1>1 DEF Leads
<1>7. ~a.ok => a.table = run.table
    BY <1>2 DEF Comes
<1> HIDE DEF a
<1> DEFINE w == [run.ops EXCEPT ![i] = a.op]
<1>8. /\ w \in Seq(Steps) /\ Len(w) = n
      /\ \A j \in 1 .. n : w[j] = IF j = i THEN a.op ELSE run.ops[j]
    BY <1>1, <1>3, ExceptSeq
<1>9. r = [table |-> a.table, ops |-> w, ok |-> a.ok, done |-> run.done, lost |-> run.lost]
    BY <1>4 DEF Runs
<1> HIDE DEF w
<1>10. run.done \in Seq(1 .. n) /\ run.lost \in SUBSET (1 .. n)
    BY DEF Runs
<1>11. r \in Runs(n)
    BY <1>3, <1>8, <1>9, <1>10 DEF Runs
<1>12. r.table = a.table /\ r.ok = a.ok /\ r.ops = w /\ r.done = run.done /\ r.lost = run.lost
    BY <1>9
<1> QED
    BY <1>5, <1>6, <1>7, <1>8, <1>11, <1>12

LEMMA GoesIs ==
    ASSUME NEW n \in Nat, NEW run \in Runs(n), NEW i \in 1 .. n, NEW redo \in BOOLEAN,
           NEW r \in Goes(run, i, redo)
    PROVE  /\ r \in Runs(n) /\ r.lost = run.lost
           /\ ~run.ok => r = run
           /\ run.ok /\ ~r.ok => r.table = run.table /\ r.done = run.done
           /\ r.ok => /\ run.ok /\ r.done = Append(run.done, i)
                      /\ Leads(r.ops[i], ~redo, r.table.keys, run.table.keys)
           /\ \A j \in 1 .. n : j # i => r.ops[j] = run.ops[j]
<1>1. CASE ~run.ok
    BY <1>1 DEF Goes
<1>2. CASE run.ok
    <2>1. PICK p \in Tried(run, i, redo) :
                  r = IF p.ok THEN [p EXCEPT !.done = Append(@, i)] ELSE p
        BY <1>2 DEF Goes
    <2>2. /\ p \in Runs(n) /\ p.done = run.done /\ p.lost = run.lost
          /\ \A j \in 1 .. n : j # i => p.ops[j] = run.ops[j]
          /\ ~p.ok => p.table = run.table
          /\ p.ok => Leads(p.ops[i], ~redo, p.table.keys, run.table.keys)
        BY TriedIs
    <2>3. CASE p.ok
        <3>1. Append(p.done, i) \in Seq(1 .. n)
            BY <2>2 DEF Runs
        <3>2. r = [table |-> p.table, ops |-> p.ops, ok |-> p.ok, done |-> Append(p.done, i),
                   lost |-> p.lost]
            BY <2>1, <2>2, <2>3 DEF Runs
        <3>3. r \in Runs(n)
            BY <2>2, <3>1, <3>2 DEF Runs
        <3>4. r.table = p.table /\ r.ops = p.ops /\ r.ok /\ r.done = Append(p.done, i) /\ r.lost = p.lost
            BY <2>3, <3>2
        <3> QED
            BY <1>2, <2>2, <2>3, <3>3, <3>4
    <2>4. CASE ~p.ok
        BY <1>2, <2>1, <2>2, <2>4
    <2> QED
        BY <2>3, <2>4
<1> QED
    BY <1>1, <1>2

(* Compensating step i of a run in which it is accepted. *)
Accepted(run, i, redo, r) ==
    \A from, to : Leads(run.ops[i], ~redo, from, to) /\ run.table.keys = from =>
                     r.lost = run.lost /\ r.table.keys = to

LEMMA GoesBackIs ==
    ASSUME NEW n \in Nat, NEW run \in Runs(n), NEW i \in 1 .. n, NEW redo \in BOOLEAN,
           NEW r \in GoesBack(run, i, redo)
    PROVE  /\ r \in Runs(n) /\ r.done = run.done
           /\ \A j \in 1 .. n : j # i => r.ops[j] = run.ops[j]
           /\ Accepted(run, i, redo, r)
<1>1. PICK back \in BOOLEAN : back = ~redo
    <2>1. (~redo) \in BOOLEAN
        BY Zenon
    <2> QED
        BY <2>1
<1>2. PICK p \in Tried(run, i, back) : r = IF p.ok THEN p ELSE [p EXCEPT !.lost = @ \cup {i}]
    BY <1>1 DEF GoesBack
<1>3. /\ p \in Runs(n) /\ p.done = run.done /\ p.lost = run.lost
      /\ \A j \in 1 .. n : j # i => p.ops[j] = run.ops[j]
      /\ \A from, to : Leads(run.ops[i], ~redo, from, to) /\ run.table.keys = from =>
                          p.ok /\ p.table.keys = to
    <2>1. /\ p \in Runs(n) /\ p.done = run.done /\ p.lost = run.lost
          /\ \A j \in 1 .. n : j # i => p.ops[j] = run.ops[j]
          /\ \A from, to : Leads(run.ops[i], back, from, to) /\ run.table.keys = from =>
                              p.ok /\ p.table.keys = to
        BY TriedIs
    <2> QED
        BY <1>1, <2>1
<1>4. CASE p.ok
    BY <1>2, <1>3, <1>4 DEF Accepted
<1>5. CASE ~p.ok
    <2>1. p.lost \cup {i} \in SUBSET (1 .. n)
        BY <1>3 DEF Runs
    <2>2. r = [table |-> p.table, ops |-> p.ops, ok |-> p.ok, done |-> p.done,
               lost |-> p.lost \cup {i}]
        BY <1>2, <1>3, <1>5 DEF Runs
    <2>3. r \in Runs(n) /\ r.ops = p.ops /\ r.done = p.done
        BY <1>3, <2>1, <2>2 DEF Runs
    <2> QED
        BY <1>3, <1>5, <2>3 DEF Accepted
<1> QED
    BY <1>4, <1>5

(* The order in which a group goes through its steps. *)
Order(steps, redo) == [i \in DOMAIN steps |-> IF redo THEN i ELSE Len(steps) - i + 1]

LEMMA OrderIs ==
    ASSUME NEW steps \in Seq(Steps), NEW redo \in BOOLEAN, NEW n \in Nat, n = Len(steps)
    PROVE  /\ DOMAIN Order(steps, redo) = 1 .. n
           /\ \A i \in 1 .. n : Order(steps, redo)[i] \in 1 .. n
           /\ \A i, j \in 1 .. n : Order(steps, redo)[i] = Order(steps, redo)[j] => i = j
<1>1. DOMAIN steps = 1 .. n
    OBVIOUS
<1>2. Order(steps, redo) = [i \in 1 .. n |-> IF redo THEN i ELSE n - i + 1]
    BY <1>1 DEF Order
<1> QED
    BY <1>2

IsAttempt(f, t, steps, order, redo) ==
    f = [s \in SUBSET DOMAIN order |->
            IF s = {} THEN {Begun(t, steps)}
            ELSE UNION {Goes(run, order[Max(s)], redo) : run \in f[s \ {Max(s)}]}]

LEMMA BegunIs ==
    ASSUME NEW t \in Tables, NEW steps \in Seq(Steps)
    PROVE  Begun(t, steps) \in Runs(Len(steps))
<1>1. << >> \in Seq(1 .. Len(steps))
    OBVIOUS
<1> QED
    BY <1>1 DEF Begun, Runs

(* What Attempt has come to after each of its steps. *)
AttemptIs(after, t, steps, redo, n) ==
    /\ after[0] = {Begun(t, steps)}
    /\ \A k \in 1 .. n :
          after[k] = UNION {Goes(run, Order(steps, redo)[k], redo) : run \in after[k - 1]}
    /\ Attempt(t, steps, redo) = after[n]

LEMMA AttemptSteps ==
    ASSUME NEW t \in Tables, NEW steps \in Seq(Steps), NEW redo \in BOOLEAN,
           NEW n \in Nat, n = Len(steps)
    PROVE  \E after : AttemptIs(after, t, steps, redo, n)
<1> DEFINE order == Order(steps, redo)
           R == SUBSET Runs(n)
           Next1(i, runs) == UNION {Goes(run, order[i], redo) : run \in runs}
           next == [p \in (1 .. n) \X R |-> Next1(p[1], p[2])]
           base == {Begun(t, steps)}
<1>1. \A i \in 1 .. n : order[i] \in 1 .. n
    BY OrderIs
<1>2. DOMAIN order = 1 .. n
    BY OrderIs
<1> HIDE DEF order
<1>3. base \in R
    BY BegunIs
<1>4. ASSUME NEW i \in 1 .. n, NEW runs \in R PROVE Next1(i, runs) \in R
    BY <1>1, GoesIs
<1>5. next \in [(1 .. n) \X R -> R] /\ \A i \in 1 .. n, runs \in R : next[<<i, runs>>] = Next1(i, runs)
    <2> HIDE DEF Next1, R
    <2>1. \A p \in (1 .. n) \X R : p[1] \in 1 .. n /\ p[2] \in R /\ p = <<p[1], p[2]>>
        OBVIOUS
    <2> QED
        BY <1>4, <2>1
<1> HIDE DEF next, base, Next1, R
<1>6. PICK b \in R, h \in [(1 .. n) \X R -> R] : b = base /\ h = next
    BY <1>3, <1>5
<1>7. \E f \in [SUBSET (1 .. n) -> R] : IsFold(f, n, b, h)
    BY FoldExists
<1>8. PICK f \in [SUBSET (1 .. n) -> R] : IsFold(f, n, base, next)
    BY <1>6, <1>7
<1>9. ASSUME NEW s \in SUBSET (1 .. n), s # {} PROVE Max(s) \in 1 .. n
    BY <1>9, MaxIn
<1>10. f = [s \in SUBSET (1 .. n) |-> IF s = {} THEN base ELSE Next1(Max(s), f[s \ {Max(s)}])]
    <2>1. ASSUME NEW s \in SUBSET (1 .. n)
          PROVE  f[s] = IF s = {} THEN base ELSE Next1(Max(s), f[s \ {Max(s)}])
        <3>1. CASE s = {}
            BY <1>8, <3>1 DEF IsFold
        <3>2. CASE s # {}
            <4>1. Max(s) \in 1 .. n /\ f[s \ {Max(s)}] \in R
                BY <1>9, <3>2
            <4> QED
                BY <1>5, <1>8, <3>2, <4>1 DEF IsFold
        <3> QED
            BY <3>1, <3>2
    <2> QED
        BY <2>1
<1>11. IsAttempt(f, t, steps, order, redo)
    BY <1>2, <1>10 DEF IsAttempt, Next1, base
<1> DEFINE g == CHOOSE g : IsAttempt(g, t, steps, order, redo)
<1>12. IsAttempt(g, t, steps, order, redo)
    BY <1>11
<1>13. Attempt(t, steps, redo) = g[1 .. n]
    <2>1. Attempt(t, steps, redo) = g[DOMAIN order]
        BY DEF Attempt, FoldLeft, MapThenFoldSet, IsAttempt, order, Order
    <2> HIDE DEF g
    <2> QED
        BY <1>2, <2>1
<1> HIDE DEF g
<1>14. \A s \in SUBSET (1 .. n) :
          g[s] = IF s = {} THEN base ELSE Next1(Max(s), g[s \ {Max(s)}])
    BY <1>2, <1>12 DEF IsAttempt, Next1, base
<1> DEFINE after == [k \in 0 .. n |-> g[1 .. k]]
<1>15. after[0] = base
    <2>1. 1 .. 0 = {} /\ 1 .. 0 \in SUBSET (1 .. n) /\ 0 \in 0 .. n
        OBVIOUS
    <2> QED
        BY <1>14, <2>1
<1>16. ASSUME NEW k \in 1 .. n PROVE after[k] = Next1(k, after[k - 1])
    <2>1. k \in Nat \ {0} /\ k - 1 \in 0 .. n /\ k \in 0 .. n
        OBVIOUS
    <2>2. k \in 1 .. k /\ 1 .. k \in SUBSET (1 .. n)
        OBVIOUS
    <2>3. Max(1 .. k) = k /\ (1 .. k) \ {k} = 1 .. k - 1
        BY <2>1, MaxUpTo
    <2>4. g[1 .. k] = Next1(k, g[1 .. k - 1])
        BY <1>14, <2>3, <2>2
    <2> QED
        BY <2>1, <2>4
<1>17. Attempt(t, steps, redo) = after[n]
    BY <1>13
<1> HIDE DEF after
<1> QED
    BY <1>15, <1>16, <1>17 DEF base, Next1, order, AttemptIs

IsCompensation(f, run, order, redo) ==
    f = [s \in SUBSET DOMAIN order |->
            IF s = {} THEN {run}
            ELSE UNION {GoesBack(r, order[Max(s)], redo) : r \in f[s \ {Max(s)}]}]

(* What Compensate has come to after each of its steps. *)
CompensationIs(after, run, redo, m) ==
    /\ after[0] = {run}
    /\ \A k \in 1 .. m :
          after[k] = UNION {GoesBack(r, run.done[m - k + 1], redo) : r \in after[k - 1]}
    /\ Compensate(run, redo) = after[m]

LEMMA CompensateSteps ==
    ASSUME NEW n \in Nat, NEW run \in Runs(n), NEW redo \in BOOLEAN,
           NEW m \in Nat, m = Len(run.done)
    PROVE  \E after : CompensationIs(after, run, redo, m)
<1> DEFINE order == Reverse(run.done)
           R == SUBSET Runs(n)
           Next1(i, runs) == UNION {GoesBack(r, order[i], redo) : r \in runs}
           next == [p \in (1 .. m) \X R |-> Next1(p[1], p[2])]
           base == {run}
<1>1. run.done \in Seq(1 .. n)
    BY DEF Runs
<1>2. DOMAIN order = 1 .. m /\ \A i \in 1 .. m : order[i] = run.done[m - i + 1]
    BY DEF Reverse
<1> HIDE DEF order
<1>3. ASSUME NEW i \in 1 .. m PROVE order[i] \in 1 .. n
    <2>1. m - i + 1 \in 1 .. Len(run.done)
        OBVIOUS
    <2> QED
        BY <1>1, <1>2, <2>1, ElementOfSeq
<1>4. base \in R
    OBVIOUS
<1>5. ASSUME NEW i \in 1 .. m, NEW runs \in R PROVE Next1(i, runs) \in R
    BY <1>3, GoesBackIs
<1>6. next \in [(1 .. m) \X R -> R] /\ \A i \in 1 .. m, runs \in R : next[<<i, runs>>] = Next1(i, runs)
    <2> HIDE DEF Next1, R
    <2>1. \A p \in (1 .. m) \X R : p[1] \in 1 .. m /\ p[2] \in R /\ p = <<p[1], p[2]>>
        OBVIOUS
    <2> QED
        BY <1>5, <2>1
<1> HIDE DEF next, base, Next1, R
<1>7. PICK b \in R, h \in [(1 .. m) \X R -> R] : b = base /\ h = next
    BY <1>4, <1>6
<1>8. \E f \in [SUBSET (1 .. m) -> R] : IsFold(f, m, b, h)
    BY FoldExists
<1>9. PICK f \in [SUBSET (1 .. m) -> R] : IsFold(f, m, base, next)
    BY <1>7, <1>8
<1>10. ASSUME NEW s \in SUBSET (1 .. m), s # {} PROVE Max(s) \in 1 .. m
    BY <1>10, MaxIn
<1>11. f = [s \in SUBSET (1 .. m) |-> IF s = {} THEN base ELSE Next1(Max(s), f[s \ {Max(s)}])]
    <2>1. ASSUME NEW s \in SUBSET (1 .. m)
          PROVE  f[s] = IF s = {} THEN base ELSE Next1(Max(s), f[s \ {Max(s)}])
        <3>1. CASE s = {}
            BY <1>9, <3>1 DEF IsFold
        <3>2. CASE s # {}
            <4>1. Max(s) \in 1 .. m /\ f[s \ {Max(s)}] \in R
                BY <1>10, <3>2
            <4> QED
                BY <1>6, <1>9, <3>2, <4>1 DEF IsFold
        <3> QED
            BY <3>1, <3>2
    <2> QED
        BY <2>1
<1>12. IsCompensation(f, run, order, redo)
    BY <1>2, <1>11 DEF IsCompensation, Next1, base
<1> DEFINE g == CHOOSE g : IsCompensation(g, run, order, redo)
<1>13. IsCompensation(g, run, order, redo)
    BY <1>12
<1>14. Compensate(run, redo) = g[1 .. m]
    <2>1. Compensate(run, redo) = g[DOMAIN order]
        BY DEF Compensate, FoldLeft, MapThenFoldSet, IsCompensation, order
    <2> HIDE DEF g
    <2> QED
        BY <1>2, <2>1
<1> HIDE DEF g
<1>15. \A s \in SUBSET (1 .. m) :
          g[s] = IF s = {} THEN base ELSE Next1(Max(s), g[s \ {Max(s)}])
    BY <1>2, <1>13 DEF IsCompensation, Next1, base
<1> DEFINE after == [k \in 0 .. m |-> g[1 .. k]]
<1>16. after[0] = base
    <2>1. 1 .. 0 = {} /\ 1 .. 0 \in SUBSET (1 .. m) /\ 0 \in 0 .. m
        OBVIOUS
    <2> QED
        BY <1>15, <2>1
<1>17. ASSUME NEW k \in 1 .. m PROVE after[k] = Next1(k, after[k - 1])
    <2>1. k \in Nat \ {0} /\ k - 1 \in 0 .. m /\ k \in 0 .. m
        OBVIOUS
    <2>2. k \in 1 .. k /\ 1 .. k \in SUBSET (1 .. m)
        OBVIOUS
    <2>3. Max(1 .. k) = k /\ (1 .. k) \ {k} = 1 .. k - 1
        BY <2>1, MaxUpTo
    <2>4. g[1 .. k] = Next1(k, g[1 .. k - 1])
        BY <1>15, <2>3, <2>2
    <2> QED
        BY <2>1, <2>4
<1>18. Compensate(run, redo) = after[m]
    BY <1>14
<1> HIDE DEF after
<1>19. ASSUME NEW k \in 1 .. m
       PROVE  after[k] = UNION {GoesBack(r, run.done[m - k + 1], redo) : r \in after[k - 1]}
    BY <1>2, <1>17 DEF Next1
<1> QED
    BY <1>16, <1>18, <1>19 DEF base, CompensationIs

(***************************************************************************)
(* A group is tried: ks are the orders of the keys there were, from before *)
(* it to now; each step that was done leads back from one to the one       *)
(* before.                                                                 *)
(***************************************************************************)

Went(run, t, order, redo, m, ks) ==
    /\ m = Len(run.done) /\ ks[0] = t.keys /\ ks[m] = run.table.keys
    /\ \A j \in 1 .. m : run.done[j] = order[j]
    /\ \A j \in 1 .. m : Leads(run.ops[order[j]], ~redo, ks[j], ks[j - 1])

WentTo(run, n, t, order, redo, k) ==
    /\ run \in Runs(n) /\ run.lost = {}
    /\ \E m \in 0 .. k : \E ks : Went(run, t, order, redo, m, ks) /\ (run.ok => m = k)

LEMMA WentOn ==
    ASSUME NEW t, NEW n \in Nat, NEW order, NEW redo \in BOOLEAN,
           \A i \in 1 .. n : order[i] \in 1 .. n,
           \A i, j \in 1 .. n : order[i] = order[j] => i = j,
           NEW k \in 1 .. n, NEW run, WentTo(run, n, t, order, redo, k - 1),
           NEW r \in Goes(run, order[k], redo)
    PROVE  WentTo(r, n, t, order, redo, k)
<1>1. run \in Runs(n) /\ run.lost = {} /\ order[k] \in 1 .. n
    BY DEF WentTo
<1>2. PICK m, ks : /\ m \in 0 .. k - 1
                    /\ Went(run, t, order, redo, m, ks) /\ (run.ok => m = k - 1)
    BY DEF WentTo
<1>3. /\ r \in Runs(n) /\ r.lost = {}
      /\ ~run.ok => r = run
      /\ run.ok /\ ~r.ok => r.table = run.table /\ r.done = run.done
      /\ r.ok => /\ run.ok /\ r.done = Append(run.done, order[k])
                 /\ Leads(r.ops[order[k]], ~redo, r.table.keys, run.table.keys)
      /\ \A j \in 1 .. n : j # order[k] => r.ops[j] = run.ops[j]
    BY <1>1, GoesIs
<1>4. m \in 0 .. k /\ m \in Nat /\ k \in Nat /\ \A j \in 1 .. m : j \in 1 .. n /\ j # k
    BY <1>2
<1>5. \A j \in 1 .. m : r.ops[order[j]] = run.ops[order[j]]
    BY <1>3, <1>4
<1>6. CASE ~run.ok
    BY <1>2, <1>3, <1>4, <1>6 DEF WentTo
<1>7. CASE run.ok /\ ~r.ok
    <2>1. Went(r, t, order, redo, m, ks)
        BY <1>2, <1>3, <1>5, <1>7 DEF Went
    <2> QED
        BY <1>3, <1>4, <1>7, <2>1 DEF WentTo
<1>8. CASE r.ok
    <2>1. run.ok /\ m = k - 1 /\ r.done = Append(run.done, order[k])
        BY <1>2, <1>3, <1>8
    <2>2. /\ Len(run.done) = k - 1 /\ ks[0] = t.keys /\ ks[k - 1] = run.table.keys
          /\ \A j \in 1 .. k - 1 : run.done[j] = order[j]
          /\ \A j \in 1 .. k - 1 : Leads(run.ops[order[j]], ~redo, ks[j], ks[j - 1])
        BY <1>2, <2>1 DEF Went
    <2>3. run.done \in Seq(1 .. n)
        BY <1>1 DEF Runs
    <2>4. Len(r.done) = k /\ \A j \in 1 .. k : r.done[j] = order[j]
        <3>1. PICK d \in Seq(1 .. n), i \in 1 .. n : d = run.done /\ i = order[k]
            BY <1>1, <2>3
        <3>2. /\ Len(Append(d, i)) = Len(d) + 1
              /\ \A j \in 1 .. Len(d) + 1 : Append(d, i)[j] = IF j = Len(d) + 1 THEN i ELSE d[j]
            BY ONLY d \in Seq(1 .. n), i \in 1 .. n
        <3>3. Len(d) + 1 = k /\ Len(d) = k - 1
            BY <1>4, <2>2, <3>1
        <3>4. ASSUME NEW j \in 1 .. k PROVE Append(d, i)[j] = order[j]
            <4>1. j = k \/ j \in 1 .. k - 1
                OBVIOUS
            <4> QED
                BY <2>2, <3>1, <3>2, <3>3, <4>1
        <3> QED
            BY <2>1, <3>1, <3>2, <3>3, <3>4
    <2> DEFINE new == [j \in 0 .. k |-> IF j = k THEN r.table.keys ELSE ks[j]]
    <2>5. new[0] = t.keys /\ new[k] = r.table.keys
        BY <2>2
    <2>6. ASSUME NEW j \in 1 .. k PROVE Leads(r.ops[order[j]], ~redo, new[j], new[j - 1])
        <3>1. j \in 0 .. k /\ j - 1 \in 0 .. k /\ j - 1 # k
            OBVIOUS
        <3>2. CASE j = k
            BY <1>3, <1>8, <2>2, <3>1, <3>2
        <3>3. CASE j # k
            <4>1. j \in 1 .. m /\ j \in 1 .. k - 1
                BY <2>1, <3>3
            <4> QED
                BY <1>5, <2>2, <3>1, <3>3, <4>1
        <3> QED
            BY <3>2, <3>3
    <2> HIDE DEF new
    <2>7. Went(r, t, order, redo, k, new)
        BY <2>4, <2>5, <2>6 DEF Went
    <2>8. k \in 0 .. k
        OBVIOUS
    <2> QED
        BY <1>3, <2>7, <2>8 DEF WentTo
<1> QED
    BY <1>6, <1>7, <1>8

LEMMA AttemptWent ==
    ASSUME NEW t \in Tables, NEW steps \in Seq(Steps), NEW redo \in BOOLEAN,
           NEW n \in Nat, n = Len(steps), NEW run \in Attempt(t, steps, redo)
    PROVE  WentTo(run, n, t, Order(steps, redo), redo, n)
<1> DEFINE order == Order(steps, redo)
<1>1. /\ \A i \in 1 .. n : order[i] \in 1 .. n
      /\ \A i, j \in 1 .. n : order[i] = order[j] => i = j
    BY OrderIs
<1>2. PICK after : AttemptIs(after, t, steps, redo, n)
    BY AttemptSteps
<1>3. /\ after[0] = {Begun(t, steps)}
      /\ \A k \in 1 .. n : after[k] = UNION {Goes(r, order[k], redo) : r \in after[k - 1]}
      /\ Attempt(t, steps, redo) = after[n]
    BY <1>2 DEF AttemptIs
<1> HIDE DEF order
<1> DEFINE All(k) == \A r \in after[k] : WentTo(r, n, t, order, redo, k)
           S == {k \in Nat : k <= n => All(k)}
<1>4. 0 \in S
    <2> SUFFICES ASSUME NEW r \in after[0] PROVE WentTo(r, n, t, order, redo, 0)
        OBVIOUS
    <2>1. r = Begun(t, steps) /\ r \in Runs(n)
        BY <1>3, BegunIs
    <2>2. r.table = t /\ r.done = << >> /\ r.lost = {} /\ Len(r.done) = 0
        BY <2>1 DEF Begun
    <2> DEFINE ks == [j \in 0 .. 0 |-> t.keys]
    <2>3. Went(r, t, order, redo, 0, ks)
        BY <2>2 DEF Went
    <2> HIDE DEF ks
    <2>4. 0 \in 0 .. 0
        OBVIOUS
    <2> QED
        BY <2>1, <2>2, <2>3, <2>4 DEF WentTo
<1>5. ASSUME NEW k \in Nat, k \in S PROVE k + 1 \in S
    <2> SUFFICES ASSUME k + 1 <= n, NEW r \in after[k + 1]
                 PROVE  WentTo(r, n, t, order, redo, k + 1)
        OBVIOUS
    <2>1. PICK j \in 1 .. n : j = k + 1 /\ j - 1 = k
        OBVIOUS
    <2>2. PICK p \in after[k] : r \in Goes(p, order[j], redo)
        BY <1>3, <2>1
    <2>3. WentTo(p, n, t, order, redo, j - 1)
        BY <1>5, <2>1
    <2>4. WentTo(r, n, t, order, redo, j)
        BY <1>1, <2>2, <2>3, WentOn
    <2> QED
        BY <2>1, <2>4
<1> HIDE DEF S
<1>6. \A k \in Nat : k \in S
    BY <1>4, <1>5, SetInduction
<1> HIDE DEF All
<1>7. n <= n
    OBVIOUS
<1>8. All(n)
    BY <1>6, <1>7 DEF S
<1> QED
    BY <1>3, <1>8 DEF All, order

Permutes(order, n) ==
    /\ \A i \in 1 .. n : order[i] \in 1 .. n
    /\ \A i, j \in 1 .. n : order[i] = order[j] => i = j

(* p of the steps that were done have been compensated. *)
BackTo(r, n, run, order, ks, m, p) ==
    /\ r \in Runs(n) /\ r.lost = {}
    /\ r.table.keys = ks[m - p]
    /\ \A j \in 1 .. m - p : r.ops[order[j]] = run.ops[order[j]]

LEMMA BackOn ==
    ASSUME NEW t, NEW n \in Nat, NEW order, NEW redo \in BOOLEAN,
           Permutes(order, n),
           NEW run, NEW m \in 0 .. n, NEW ks, Went(run, t, order, redo, m, ks),
           NEW p \in 1 .. m, NEW r, BackTo(r, n, run, order, ks, m, p - 1),
           NEW q \in GoesBack(r, run.done[m - p + 1], redo)
    PROVE  BackTo(q, n, run, order, ks, m, p)
<1>1. PICK h \in 1 .. n : h = m - p + 1 /\ h \in 1 .. m /\ h - 1 = m - p /\ m - (p - 1) = h
    <2>1. m - p + 1 \in 1 .. n /\ m - p + 1 \in 1 .. m /\ (m - p + 1) - 1 = m - p
          /\ m - (p - 1) = m - p + 1
        BY ONLY n \in Nat, m \in 0 .. n, p \in 1 .. m
    <2> QED
        BY ONLY <2>1
<1>2. PICK i \in 1 .. n : i = order[h]
    BY DEF Permutes
<1>3. run.done[m - p + 1] = i /\ Leads(run.ops[i], ~redo, ks[h], ks[h - 1])
    BY <1>1, <1>2 DEF Went
<1>4. r \in Runs(n) /\ r.lost = {} /\ r.table.keys = ks[h] /\ r.ops[i] = run.ops[i]
      /\ \A j \in 1 .. h : r.ops[order[j]] = run.ops[order[j]]
    BY <1>1, <1>2 DEF BackTo
<1>5. q \in GoesBack(r, i, redo)
    BY <1>3
<1>6. /\ q \in Runs(n)
      /\ \A j \in 1 .. n : j # i => q.ops[j] = r.ops[j]
      /\ Accepted(r, i, redo, q)
    BY <1>4, <1>5, GoesBackIs
<1>7. q.lost = {} /\ q.table.keys = ks[h - 1]
    BY <1>3, <1>4, <1>6 DEF Accepted
<1>8. ASSUME NEW j \in 1 .. h - 1 PROVE q.ops[order[j]] = run.ops[order[j]]
    <2>1. j \in 1 .. n /\ j # h /\ j \in 1 .. h
        BY ONLY j \in 1 .. h - 1, h \in 1 .. n, n \in Nat
    <2>2. order[j] \in 1 .. n /\ order[j] # i
        BY <1>2, <2>1 DEF Permutes
    <2> QED
        BY <1>4, <1>6, <2>1, <2>2
<1> QED
    BY <1>1, <1>6, <1>7, <1>8 DEF BackTo

LEMMA CompensateBack ==
    ASSUME NEW t, NEW n \in Nat, NEW order, NEW redo \in BOOLEAN,
           Permutes(order, n),
           NEW run \in Runs(n), run.lost = {},
           NEW m \in 0 .. n, NEW ks, Went(run, t, order, redo, m, ks),
           NEW back \in Compensate(run, redo)
    PROVE  back \in Runs(n) /\ back.lost = {} /\ back.table.keys = t.keys
<1>1. m \in Nat /\ m = Len(run.done) /\ ks[0] = t.keys /\ ks[m] = run.table.keys
    BY DEF Went
<1>2. PICK after : CompensationIs(after, run, redo, m)
    BY <1>1, CompensateSteps
<1>3. /\ after[0] = {run}
      /\ \A k \in 1 .. m :
            after[k] = UNION {GoesBack(r, run.done[m - k + 1], redo) : r \in after[k - 1]}
      /\ Compensate(run, redo) = after[m]
    BY <1>2 DEF CompensationIs
<1> DEFINE All(k) == \A r \in after[k] : BackTo(r, n, run, order, ks, m, k)
           S == {k \in Nat : k <= m => All(k)}
<1>4. 0 \in S
    <2>1. m - 0 = m
        BY <1>1
    <2> QED
        BY <1>1, <1>3, <2>1 DEF BackTo
<1>5. ASSUME NEW k \in Nat, k \in S PROVE k + 1 \in S
    <2> SUFFICES ASSUME k + 1 <= m, NEW q \in after[k + 1]
                 PROVE  BackTo(q, n, run, order, ks, m, k + 1)
        OBVIOUS
    <2>1. PICK p \in 1 .. m : p = k + 1 /\ p - 1 = k
        BY <1>1
    <2>2. PICK r \in after[k] : q \in GoesBack(r, run.done[m - p + 1], redo)
        BY <1>3, <2>1
    <2>3. BackTo(r, n, run, order, ks, m, p - 1)
        BY <1>1, <1>5, <2>1
    <2>4. BackTo(q, n, run, order, ks, m, p)
        BY <2>2, <2>3, BackOn
    <2> QED
        BY <2>1, <2>4
<1> HIDE DEF S
<1>6. \A k \in Nat : k \in S
    BY <1>4, <1>5, SetInduction
<1> HIDE DEF All
<1>7. m <= m
    BY <1>1
<1>8. All(m)
    BY <1>1, <1>6, <1>7 DEF S
<1>9. m - m = 0
    BY <1>1
<1> QED
    BY <1>1, <1>3, <1>8, <1>9 DEF All, BackTo

(* A group that is refused leaves the keys as they were, and nothing that  *)
(* it compensates is refused.                                              *)
LEMMA RunIs ==
    ASSUME NEW t \in Tables, NEW steps \in Seq(Steps), NEW redo \in BOOLEAN,
           NEW run \in Run(t, steps, redo)
    PROVE  /\ run.table \in Tables /\ run.ops \in Seq(Steps) /\ Len(run.ops) = Len(steps)
           /\ run.ok \in BOOLEAN
           /\ ~run.ok => run.table.keys = t.keys /\ run.lost = {}
<1>1. PICK n \in Nat : n = Len(steps)
    OBVIOUS
<1>2. PICK tried \in Attempt(t, steps, redo) :
          \/ tried.ok /\ run = tried
          \/ ~tried.ok /\ \E back \in Compensate(tried, redo) : run = [back EXCEPT !.ok = FALSE]
    BY DEF Run
<1> DEFINE order == Order(steps, redo)
<1>3. Permutes(order, n)
    BY <1>1, OrderIs DEF Permutes
<1>4. WentTo(tried, n, t, order, redo, n)
    BY <1>1, AttemptWent
<1> HIDE DEF order
<1>5. tried \in Runs(n) /\ tried.lost = {}
    BY <1>4 DEF WentTo
<1>6. CASE tried.ok /\ run = tried
    BY <1>1, <1>5, <1>6 DEF Runs
<1>7. CASE ~tried.ok /\ \E back \in Compensate(tried, redo) : run = [back EXCEPT !.ok = FALSE]
    <2>1. PICK back \in Compensate(tried, redo) : run = [back EXCEPT !.ok = FALSE]
        BY <1>7
    <2>2. PICK m, ks : m \in 0 .. n /\ Went(tried, t, order, redo, m, ks)
        BY <1>4 DEF WentTo
    <2>3. back \in Runs(n) /\ back.lost = {} /\ back.table.keys = t.keys
        BY <1>3, <1>5, <2>2, CompensateBack
    <2>4. run.table = back.table /\ run.ops = back.ops /\ run.ok = FALSE /\ run.lost = back.lost
        BY <2>1, <2>3 DEF Runs
    <2> QED
        BY <1>1, <2>3, <2>4 DEF Runs
<1> QED
    BY <1>2, <1>6, <1>7

(***************************************************************************)
(* The history and the table together.                                     *)
(***************************************************************************)

(* The table is sound; what is pushed for itself is one operation, what is *)
(* pushed in a turn are insertions and removals, and no turn is torn.      *)
TableGood ==
    /\ table \in Tables
    /\ ops \in [Edits \cup Groups -> Seq(Ops)]
    /\ \A g \in Groups : ops[g] \in Seq(Steps)
    /\ \A e \in pushed : Len(ops[e]) = 1
    /\ NeverTorn

TableInv == IInv /\ TableGood

(* One step of the history: the table stays good, and when the step is     *)
(* refused its keys stay.                                                  *)
Obeys(ok) == TableGood' /\ (~ok => table'.keys = table.keys)

LEMMA OpsType ==
    ASSUME TableInv, NEW x \in Edits \cup Groups, NEW new \in Seq(Ops),
           ops' = [ops EXCEPT ![x] = new], x \in Groups => new \in Seq(Steps),
           pushed' \subseteq Edits, \A e \in pushed' : e = x \/ e \in pushed,
           x \in Edits => Len(new) = 1
    PROVE  /\ ops' \in [Edits \cup Groups -> Seq(Ops)]
           /\ \A g \in Groups : ops'[g] \in Seq(Steps)
           /\ \A e \in pushed' : Len(ops'[e]) = 1
<1>1. /\ ops \in [Edits \cup Groups -> Seq(Ops)]
      /\ \A g \in Groups : ops[g] \in Seq(Steps)
      /\ \A e \in pushed : Len(ops[e]) = 1
    BY DEF TableInv, TableGood
<1>2. \A y \in Edits \cup Groups : ops'[y] = IF y = x THEN new ELSE ops[y]
    BY <1>1
<1>3. ops' \in [Edits \cup Groups -> Seq(Ops)]
    BY <1>1
<1>4. \A g \in Groups : ops'[g] \in Seq(Steps)
    BY <1>1, <1>2
<1>5. ASSUME NEW e \in pushed' PROVE Len(ops'[e]) = 1
    <2>1. e \in Edits
        OBVIOUS
    <2>2. CASE e = x
        BY <1>2, <2>1, <2>2
    <2>3. CASE e # x
        BY <1>1, <1>2, <2>1, <2>3
    <2> QED
        BY <2>2, <2>3
<1> QED
    BY <1>3, <1>4, <1>5

LEMMA TakesObeys ==
    ASSUME TableInv, NEW g \in Groups, NEW redo \in BOOLEAN, NEW ok \in BOOLEAN,
           ExecuteGroup(g, redo, ok), Takes(g, redo, ok)
    PROVE  Obeys(ok)
<1>1. /\ table \in Tables /\ ops \in [Edits \cup Groups -> Seq(Ops)]
      /\ ops[g] \in Seq(Steps) /\ \A h \in Groups : ~groups[h].error
      /\ groups \in [Groups -> GroupData] /\ pushed \subseteq Edits
    BY DEF TableInv, TableGood, NeverTorn, IInv, TypeOK
<1>2. pushed' = pushed
    BY DEF ExecuteGroup, single
<1>3. CASE /\ groups[g].error \/ groups[g].applied = redo
           /\ ~ok /\ UNCHANGED <<table, ops>>
    <2>1. PICK outcome \in Executed(groups[g], redo) :
                  groups' = [groups EXCEPT ![g] = outcome.data]
        BY DEF ExecuteGroup
    <2>2. outcome.data = groups[g]
        BY <1>3 DEF Executed
    <2>3. groups' = groups
        BY <1>1, <2>1, <2>2
    <2>4. table' = table /\ ops' = ops
        BY <1>3
    <2>5. TableGood'
        BY <1>2, <2>3, <2>4 DEF TableInv, TableGood, NeverTorn
    <2> QED
        BY <2>4, <2>5 DEF Obeys
<1>4. ASSUME NEW run \in Run(table, ops[g], redo), ok = run.ok,
             groups' = [groups EXCEPT ![g] = IF run.ok THEN Whole(groups[g], redo)
                                             ELSE Compensated(groups[g], redo, run.lost)],
             table' = run.table, ops' = [ops EXCEPT ![g] = run.ops]
      PROVE  Obeys(ok)
    <2>1. /\ run.table \in Tables /\ run.ops \in Seq(Steps)
          /\ ~run.ok => run.table.keys = table.keys /\ run.lost = {}
        <3>1. PICK t \in Tables, steps \in Seq(Steps) : t = table /\ steps = ops[g]
            BY <1>1
        <3>2. run \in Run(t, steps, redo)
            BY <1>4, <3>1
        <3>3. /\ run.table \in Tables /\ run.ops \in Seq(Steps)
              /\ ~run.ok => run.table.keys = t.keys /\ run.lost = {}
            BY <3>2, RunIs
        <3> QED
            BY <3>1, <3>3
    <2>2. run.ops \in Seq(Ops)
        BY <2>1 DEF Steps
    <2>3. g \notin Edits
        BY UndoAssumption
    <2>4. /\ ops' \in [Edits \cup Groups -> Seq(Ops)]
          /\ \A h \in Groups : ops'[h] \in Seq(Steps)
          /\ \A e \in pushed' : Len(ops'[e]) = 1
        BY <1>1, <1>2, <1>4, <2>1, <2>2, <2>3, OpsType
    <2>5. NeverTorn'
        <3>1. ~groups'[g].error
            <4>1. groups[g] \in GroupData /\ ~groups[g].error
                BY <1>1
            <4>2. ~Whole(groups[g], redo).error
                BY <4>1 DEF Whole, GroupData
            <4>3. run.lost = {} => ~Compensated(groups[g], redo, run.lost).error
                BY <4>1 DEF Compensated, GroupData
            <4> QED
                BY <1>1, <1>4, <2>1, <4>2, <4>3
        <3>2. \A h \in Groups : h # g => groups'[h] = groups[h]
            BY <1>1, <1>4
        <3> QED
            BY <1>1, <3>1, <3>2 DEF NeverTorn
    <2> QED
        BY <1>4, <2>1, <2>4, <2>5 DEF Obeys, TableGood
<1> QED
    BY <1>3, <1>4 DEF Takes

LEMMA ExecutesObeys ==
    ASSUME TableInv, NEW i \in 1 .. Len(stack), NEW redo \in BOOLEAN, NEW ok \in BOOLEAN,
           Execute(stack[i], redo, ok), Executes(stack[i], redo, ok)
    PROVE  Obeys(ok)
<1>1. /\ table \in Tables /\ ops \in [Edits \cup Groups -> Seq(Ops)] /\ NeverTorn
      /\ pushed \subseteq Edits /\ begun \subseteq Groups
      /\ stack[i] \in Commands /\ CommandGood(stack[i])
    BY DEF TableInv, TableGood, IInv, TypeOK, CommandsGood
<1>2. CASE stack[i].kind = "edit"
    <2>1. PICK e \in pushed : e = stack[i].of /\ e \in Edits
        BY <1>1, <1>2 DEF CommandGood
    <2>2. ExecuteEdit(e, redo, ok)
        BY <1>2, <2>1 DEF Execute
    <2>3. groups' = groups /\ pushed' = pushed
        BY <2>2 DEF ExecuteEdit
    <2>4. PICK r : /\ r = Apply(table, ops[e][1], redo)
                   /\ ok = r.ok /\ table' = r.table /\ ops' = [ops EXCEPT ![e] = <<r.op>>]
        BY <1>2, <2>1 DEF Executes
    <2>5. PICK op \in Ops : op = ops[e][1]
        BY <1>1, <2>1 DEF TableInv, TableGood
    <2>6. Comes(table, op, r)
        BY <1>1, <2>4, <2>5, ApplyComes
    <2>7. r.table \in Tables /\ r.op \in Ops /\ (~r.ok => r.table = table)
        BY <2>6 DEF Comes
    <2>8. <<r.op>> \in Seq(Ops) /\ Len(<<r.op>>) = 1 /\ e \notin Groups
        BY <2>1, <2>7, UndoAssumption
    <2>9. /\ ops' \in [Edits \cup Groups -> Seq(Ops)]
          /\ \A g \in Groups : ops'[g] \in Seq(Steps)
          /\ \A x \in pushed' : Len(ops'[x]) = 1
        BY <1>1, <2>1, <2>3, <2>4, <2>8, OpsType
    <2>10. NeverTorn'
        BY <1>1, <2>3 DEF NeverTorn
    <2> QED
        BY <2>4, <2>7, <2>9, <2>10 DEF Obeys, TableGood
<1>3. CASE stack[i].kind = "commit"
    <2>1. PICK g \in Groups : g = stack[i].of
        BY <1>1, <1>3 DEF CommandGood
    <2>2. ExecuteGroup(g, redo, ok) /\ Takes(g, redo, ok)
        BY <1>3, <2>1 DEF Execute, Executes
    <2> QED
        BY <2>2, TakesObeys
<1>4. CASE stack[i].kind = "revert"
    <2>1. PICK g \in Groups : g = stack[i].of
        BY <1>1, <1>4 DEF CommandGood
    <2>2. PICK back \in BOOLEAN : back = ~redo
        <3>1. (~redo) \in BOOLEAN
            BY Zenon
        <3> QED
            BY <3>1
    <2>3. ExecuteGroup(g, back, ok) /\ Takes(g, back, ok)
        BY <1>4, <2>1, <2>2 DEF Execute, Executes
    <2> QED
        BY <2>3, TakesObeys
<1> QED
    BY <1>2, <1>3, <1>4 DEF Executes

LEMMA BackObeys ==
    ASSUME TableInv, NEW ok \in BOOLEAN, Back(ok)
    PROVE  Obeys(ok)
<1>1. PICK i \in 1 .. Len(stack) : i = index
    BY DEF Back, StepBack, TableInv, IInv, TypeOK
<1>2. Execute(stack[i], FALSE, ok) /\ Executes(stack[i], FALSE, ok)
    BY <1>1 DEF Back, StepBack
<1> QED
    BY <1>2, ExecutesObeys

LEMMA ForwardObeys ==
    ASSUME TableInv, NEW ok \in BOOLEAN, Forward(ok)
    PROVE  Obeys(ok)
<1>1. PICK i \in 1 .. Len(stack) : i = index + 1
    BY DEF Forward, StepForward, TableInv, IInv, TypeOK
<1>2. Execute(stack[i], TRUE, ok) /\ Executes(stack[i], TRUE, ok)
    BY <1>1 DEF Forward, StepForward
<1> QED
    BY <1>2, ExecutesObeys

LEMMA RevertedObeys ==
    ASSUME TableInv, NEW g \in Groups, NEW ok \in BOOLEAN, TurnReverted(g, ok)
    PROVE  Obeys(ok)
BY TakesObeys DEF TurnReverted, UndoGroupRevert

(* What is refused leaves the keys as they were, what had been done of it  *)
(* included.                                                               *)
LEMMA RefusedKeeps == TableInv => RefusalKeepsKeys
BY BackObeys, ForwardObeys, RevertedObeys DEF RefusalKeepsKeys, Obeys

LEMMA SameObeys ==
    ASSUME TableInv, table' \in Tables, ops' = ops, pushed' = pushed,
           \A g \in Groups : groups'[g].error = groups[g].error
    PROVE  TableGood'
BY DEF TableInv, TableGood, NeverTorn

LEMMA PlacedIs ==
    ASSUME NEW kind \in {"insert", "remove", "rename", "move"}, kind = "move" => MayMove,
           NEW k \in Keys, NEW other \in Keys, NEW at \in Nat
    PROVE  /\ Placed(kind, k, other, at) \in Ops
           /\ kind \in {"insert", "remove"} => Placed(kind, k, other, at) \in Steps
BY DEF Placed, Ops, Steps

LEMMA MakesIs ==
    ASSUME NEW op \in Ops, table \in Tables, Makes(op)
    PROVE  table' \in Tables
<1>1. Comes(table, op, Apply(table, op, TRUE))
    BY ApplyComes
<1> QED
    BY <1>1 DEF Makes, Comes

LEMMA PushesGood ==
    ASSUME TableInv, NEW e \in Edits, NEW op \in Ops, Pushes(e, op)
    PROVE  TableGood'
<1>1. /\ table \in Tables /\ pushed \subseteq Edits /\ NeverTorn
    BY DEF TableInv, TableGood, IInv, TypeOK
<1>2. /\ Makes(op) /\ ops' = [ops EXCEPT ![e] = <<op>>]
      /\ pushed' = pushed \cup {e} /\ groups' = groups
    BY DEF Pushes, PushEdit
<1>3. table' \in Tables
    BY <1>1, <1>2, MakesIs
<1>4. <<op>> \in Seq(Ops) /\ Len(<<op>>) = 1 /\ e \notin Groups
    BY UndoAssumption
<1>5. /\ ops' \in [Edits \cup Groups -> Seq(Ops)]
      /\ \A g \in Groups : ops'[g] \in Seq(Steps)
      /\ \A x \in pushed' : Len(ops'[x]) = 1
    BY <1>1, <1>2, <1>4, OpsType
<1>6. NeverTorn'
    BY <1>1, <1>2 DEF NeverTorn
<1> QED
    BY <1>3, <1>5, <1>6 DEF TableGood

LEMMA UserEditsGood ==
    ASSUME TableInv, NEW e \in Edits, UserEdits(e)
    PROVE  TableGood' /\ PushEdit(e, TRUE)
<1>1. table \in Tables /\ \A k : Index(table, k) \in Nat
    BY IndexNat DEF TableInv, TableGood
<1>2. PICK k \in Keys : \/ \E at \in 1 .. Len(table.keys) + 1 : DatatableInsert(e, k, at)
                        \/ DatatableRemove(e, k)
                        \/ \E other \in Keys : DatatableRename(e, k, other) \/ DatatableMove(e, k, other)
    BY DEF UserEdits
<1>3. \E op \in Ops : Pushes(e, op)
    <2>1. ASSUME NEW at \in 1 .. Len(table.keys) + 1, DatatableInsert(e, k, at)
          PROVE  \E op \in Ops : Pushes(e, op)
        <3>1. Len(table.keys) \in Nat
            BY <1>1 DEF Tables, Sound, Agree
        <3>2. at \in Nat
            BY <3>1
        <3> QED
            BY <2>1, <3>2, PlacedIs DEF DatatableInsert
    <2>2. ASSUME DatatableRemove(e, k)
          PROVE  \E op \in Ops : Pushes(e, op)
        BY <1>1, <2>2, PlacedIs DEF DatatableRemove
    <2>3. ASSUME NEW other \in Keys, DatatableRename(e, k, other)
          PROVE  \E op \in Ops : Pushes(e, op)
        BY <2>3, PlacedIs DEF DatatableRename
    <2>4. ASSUME NEW other \in Keys, DatatableMove(e, k, other)
          PROVE  \E op \in Ops : Pushes(e, op)
        BY <1>1, <2>4, PlacedIs DEF DatatableMove
    <2> QED
        BY <1>2, <2>1, <2>2, <2>3, <2>4
<1> QED
    BY <1>3, PushesGood DEF Pushes

LEMMA ToolDoesGood ==
    ASSUME TableInv, NEW g \in Groups, NEW op \in Steps, ToolDoes(g, op)
    PROVE  TableGood'
<1>1. /\ table \in Tables /\ pushed \subseteq Edits /\ NeverTorn /\ op \in Ops
      /\ groups \in [Groups -> GroupData] /\ ops \in [Edits \cup Groups -> Seq(Ops)]
      /\ ops[g] \in Seq(Steps)
    BY DEF TableInv, TableGood, IInv, TypeOK, Steps
<1>2. /\ Makes(op) /\ ops' = [ops EXCEPT ![g] = Append(ops[g], op)]
      /\ pushed' = pushed /\ groups' = [groups EXCEPT ![g].steps = Append(@, TRUE)]
    BY DEF ToolDoes, PushStep, single
<1>3. table' \in Tables
    BY <1>1, <1>2, MakesIs
<1>4. Append(ops[g], op) \in Seq(Steps) /\ Append(ops[g], op) \in Seq(Ops) /\ g \notin Edits
    BY <1>1, UndoAssumption
<1>5. /\ ops' \in [Edits \cup Groups -> Seq(Ops)]
      /\ \A h \in Groups : ops'[h] \in Seq(Steps)
      /\ \A x \in pushed' : Len(ops'[x]) = 1
    BY <1>1, <1>2, <1>4, OpsType
<1>6. NeverTorn'
    BY <1>1, <1>2 DEF NeverTorn, GroupData
<1> QED
    BY <1>3, <1>5, <1>6 DEF TableGood

LEMMA WriteGood ==
    ASSUME TableInv, NEW k \in Keys, NEW v \in Values, DatatableWrite(k, v)
    PROVE  TableGood'
<1>1. /\ table \in Tables /\ Has(table, k)
      /\ Agree(table.keys, table.cells, table.length, table.written)
    BY DEF TableInv, TableGood, DatatableWrite, Tables, Sound
<1>2. Index(table, k) \in 1 .. Len(table.keys) /\ table.keys[Index(table, k)] = k
    BY <1>1, IndexIs DEF Agree
<1>3. PICK at \in 1 .. Len(table.keys) : at = Index(table, k) /\ k = table.keys[at]
    BY <1>2
<1> DEFINE cells == SetItem(table.cells, table.length[k] + 1, at, v)
           length == [table.length EXCEPT ![k] = @ + 1]
           written == [table.written EXCEPT ![k] = Append(@, v)]
<1>4. Agree(table.keys, cells, length, written)
    BY <1>1, <1>3, WrittenAgree
<1>5. table' = [keys |-> table.keys, cells |-> cells, length |-> length, written |-> written]
    <2>1. table = [keys |-> table.keys, cells |-> table.cells, length |-> table.length,
                   written |-> table.written]
        BY <1>1 DEF Tables
    <2>2. table' = [table EXCEPT !.cells = cells, !.length = length, !.written = written]
        BY <1>3 DEF DatatableWrite, Script
    <2> HIDE DEF cells, length, written
    <2> QED
        BY <2>1, <2>2
<1> HIDE DEF cells, length, written
<1>6. PICK new : new = table'
    OBVIOUS
<1>7. new \in Tables
    BY <1>4, <1>5, <1>6, TableMade DEF Sound
<1>8. ops' = ops /\ pushed' = pushed /\ groups' = groups
    BY DEF DatatableWrite, Script, vars, single
<1> QED
    BY <1>6, <1>7, <1>8, SameObeys

LEMMA ClearGood ==
    ASSUME TableInv, DatatableClear
    PROVE  TableGood'
<1>1. table \in Tables /\ Agree(table.keys, table.cells, table.length, table.written) /\ MayClear
    BY DEF TableInv, TableGood, DatatableClear, Tables, Sound
<1> DEFINE length == [k \in DOMAIN table.length |-> 0]
           written == [k \in DOMAIN table.written |-> << >>]
<1>2. Agree(table.keys, << >>, length, written)
    BY <1>1, ClearedAgree
<1>3. table' = [keys |-> table.keys, cells |-> << >>, length |-> length, written |-> written]
    <2>1. table = [keys |-> table.keys, cells |-> table.cells, length |-> table.length,
                   written |-> table.written]
        BY <1>1 DEF Tables
    <2>2. table' = [table EXCEPT !.cells = << >>, !.length = length, !.written = written]
        BY DEF DatatableClear, Script
    <2> HIDE DEF length, written
    <2> QED
        BY <2>1, <2>2
<1> HIDE DEF length, written
<1>4. PICK new : new = table'
    OBVIOUS
<1>5. new \in Tables
    BY <1>2, <1>3, <1>4, TableMade DEF Sound
<1>6. ops' = ops /\ pushed' = pushed /\ groups' = groups
    BY DEF DatatableClear, Script, vars, single
<1> QED
    BY <1>4, <1>5, <1>6, SameObeys

(* What an action is to the history; only the beginning of a turn is not   *)
(* one of UndoStack's.                                                     *)
TurnBegun == \E g \in Groups : TurnBegins(g)

LEMMA TableSteps == TableNext => [Next]_vars \/ TurnBegun
<1>1. ASSUME NEW e \in Edits, UserEdits(e) PROVE PushEdit(e, TRUE)
    BY <1>1 DEF UserEdits, DatatableInsert, DatatableRemove, DatatableRename, DatatableMove, Pushes
<1>2. ASSUME NEW g \in Groups, AgentTurns(g)
      PROVE  TurnBegins(g) \/ UndoGroupCommit(g) \/ PushStep(g)
    BY <1>2 DEF AgentTurns, TurnEnds, ToolInserts, ToolRemoves, ToolDoes
<1>3. ASSUME NEW g \in Groups, NEW ok \in BOOLEAN, TurnReverted(g, ok)
      PROVE  UndoGroupRevert(g, ok)
    BY <1>3 DEF TurnReverted
<1>4. ASSUME NEW target \in 0 .. Limit, UserGoes(target) PROVE SetIndex(target)
    BY <1>4 DEF UserGoes
<1>5. ASSUME NEW ok \in BOOLEAN, Back(ok) \/ Forward(ok) PROVE StepBack(ok) \/ StepForward(ok)
    BY <1>5 DEF Back, Forward
<1>6. ASSUME NEW k \in Keys, NEW v \in Values, DatatableWrite(k, v) PROVE UNCHANGED vars
    BY <1>6 DEF DatatableWrite, Script
<1>7. DatatableClear => UNCHANGED vars
    BY DEF DatatableClear, Script
<1> QED
    BY <1>1, <1>2, <1>3, <1>4, <1>5, <1>6, <1>7 DEF TableNext, Next, TurnBegun

LEMMA TurnBegunStep ==
    ASSUME IInv, TurnBegun
    PROVE  Step
<1>1. PICK g \in Groups : TurnBegins(g)
    BY DEF TurnBegun
<1>2. StackAdvances({})
    BY <1>1, StackStays DEF TurnBegins
<1>3. OneAdvances
    BY <1>1 DEF TurnBegins, OneAdvances
<1> QED
    BY <1>1, <1>2, <1>3 DEF TurnBegins, Step, IInv, TypeOK, single

LEMMA TableStep == IInv /\ [TableNext]_tableVars => Step
<1>1. UNCHANGED tableVars => UNCHANGED vars
    BY DEF tableVars
<1> QED
    BY <1>1, TableSteps, TurnBegunStep, EveryStep

LEMMA TableNextGood ==
    ASSUME TableInv, [TableNext]_tableVars
    PROVE  TableInv'
<1>1. IInv'
    BY TableStep, StepGood DEF TableInv
<1>2. /\ table \in Tables /\ groups \in [Groups -> GroupData]
      /\ \A k : Index(table, k) \in Nat
    BY IndexNat DEF TableInv, TableGood, IInv, TypeOK
<1>3. ASSUME NEW e \in Edits, UserEdits(e) PROVE TableGood'
    BY <1>3, UserEditsGood
<1>4. ASSUME NEW g \in Groups, AgentTurns(g) PROVE TableGood'
    <2>1. CASE TurnBegins(g)
        BY <1>2, <2>1, SameObeys DEF TurnBegins, single
    <2>2. CASE TurnEnds(g)
        <3>1. \A h \in Groups : groups'[h].error = groups[h].error
            BY <1>2, <2>2 DEF TurnEnds, UndoGroupCommit, GroupData
        <3> QED
            BY <1>2, <2>2, <3>1, SameObeys DEF TurnEnds, UndoGroupCommit, single
    <2>3. ASSUME NEW k \in Keys, ToolInserts(g, k) PROVE TableGood'
        <3>1. Len(table.keys) + 1 \in Nat
            BY <1>2 DEF Tables, Sound, Agree
        <3> QED
            BY <2>3, <3>1, PlacedIs, ToolDoesGood DEF ToolInserts
    <2>4. ASSUME NEW k \in Keys, ToolRemoves(g, k) PROVE TableGood'
        BY <1>2, <2>4, PlacedIs, ToolDoesGood DEF ToolRemoves
    <2> QED
        BY <1>4, <2>1, <2>2, <2>3, <2>4 DEF AgentTurns
<1>5. ASSUME NEW g \in Groups, NEW ok \in BOOLEAN, TurnReverted(g, ok) PROVE TableGood'
    BY <1>5, RevertedObeys DEF Obeys
<1>6. ASSUME NEW target, UserGoes(target) PROVE TableGood'
    BY <1>2, <1>6, SameObeys DEF UserGoes, SetIndex, single
<1>7. ASSUME NEW ok \in BOOLEAN, Back(ok) \/ Forward(ok) PROVE TableGood'
    BY <1>7, BackObeys, ForwardObeys DEF Obeys
<1>8. ASSUME NEW k \in Keys, NEW v \in Values, DatatableWrite(k, v) PROVE TableGood'
    BY <1>8, WriteGood
<1>9. ASSUME DatatableClear PROVE TableGood'
    BY <1>9, ClearGood
<1>10. ASSUME UNCHANGED tableVars PROVE TableGood'
    BY <1>2, <1>10, SameObeys DEF tableVars, vars, single
<1>11. TableGood'
    BY <1>3, <1>4, <1>5, <1>6, <1>7, <1>8, <1>9, <1>10 DEF TableNext
<1> QED
    BY <1>1, <1>11 DEF TableInv

LEMMA TableInitially == TableInit => TableInv /\ Change!Init /\ AllTold
<1> SUFFICES ASSUME TableInit PROVE TableInv /\ Change!Init /\ AllTold
    OBVIOUS
<1>1. IInv /\ Change!Init /\ AllTold
    BY Initially, InitiallyTold DEF TableInit
<1> DEFINE cells == [i \in 1 .. Len(Start) |-> << >>]
           length == [k \in ToSet(Start) |-> 0]
           written == [k \in ToSet(Start) |-> << >>]
<1>2. Agree(Start, cells, length, written)
    <2>1. Start \in Seq(Keys) /\ Distinct(Start) /\ Len(Start) \in Nat
        BY TableAssumption DEF Distinct
    <2>2. << >> \in Seq(Contents) /\ << >> \in Seq(Values) /\ Len(<< >>) = 0
        OBVIOUS
    <2>3. cells \in Columns /\ Len(cells) = Len(Start)
        BY <2>1, <2>2 DEF Columns
    <2>4. \A i \in 1 .. Len(Start) : CellsAt(cells, i) = << >> /\ Start[i] \in ToSet(Start)
        BY <2>1, <2>3, ToSetIs DEF CellsAt
    <2>5. /\ length \in [ToSet(Start) -> Nat] /\ written \in [ToSet(Start) -> Seq(Values)]
          /\ \A k \in ToSet(Start) : length[k] = Len(written[k])
        BY <2>2
    <2>6. \A i \in 1 .. Len(Start) : CellsAt(cells, i) = written[Start[i]]
        BY <2>4
    <2>7. Len(cells) <= Len(Start)
        BY <2>1, <2>3
    <2> HIDE DEF cells, length, written
    <2> QED
        BY <2>1, <2>3, <2>5, <2>6, <2>7 DEF Agree
<1>3. table = [keys |-> Start, cells |-> cells, length |-> length, written |-> written]
    BY DEF TableInit
<1> HIDE DEF cells, length, written
<1>4. PICK t : t = table
    OBVIOUS
<1>5. t \in Tables
    BY <1>2, <1>3, <1>4, TableMade DEF Sound
<1>6. ops \in [Edits \cup Groups -> Seq(Ops)] /\ \A g \in Groups : ops[g] \in Seq(Steps)
    <2>1. << >> \in Seq(Ops) /\ << >> \in Seq(Steps)
        OBVIOUS
    <2> QED
        BY <2>1 DEF TableInit
<1>7. pushed = {} /\ NeverTorn
    BY DEF TableInit, Init, NewGroup, NeverTorn
<1>8. TableGood
    BY <1>4, <1>5, <1>6, <1>7 DEF TableGood
<1> QED
    BY <1>1, <1>8 DEF TableInv

LEMMA TableTold == TableInv /\ AllTold /\ [TableNext]_tableVars => AllTold'
<1> SUFFICES ASSUME TableInv, AllTold, [TableNext]_tableVars PROVE AllTold'
    OBVIOUS
<1>1. ASSUME TurnBegun PROVE AllTold'
    <2>1. PICK g \in Groups : TurnBegins(g)
        BY <1>1 DEF TurnBegun
    <2> QED
        BY <2>1, QuietTold DEF TurnBegins, history, single, TableInv
<1>2. UNCHANGED tableVars => UNCHANGED vars
    BY DEF tableVars
<1> QED
    BY <1>1, <1>2, TableSteps, StepTold DEF TableInv

LEMMA TableTypes == TableInv => TableTypeOK
<1> SUFFICES ASSUME TableInv PROVE TableTypeOK
    OBVIOUS
<1>1. Agree(table.keys, table.cells, table.length, table.written)
    BY DEF TableInv, TableGood, Tables, Sound
<1>2. DOMAIN table.keys = 1 .. Len(table.keys)
    BY <1>1 DEF Agree
<1>3. ops \in [Edits \cup Groups ->
                 Seq([kind : {"insert", "remove", "rename", "move"},
                      key : Keys, other : Keys, at : Nat])]
    <2>1. Ops \subseteq [kind : {"insert", "remove", "rename", "move"},
                         key : Keys, other : Keys, at : Nat]
        BY DEF Ops
    <2>2. PICK R : R = [kind : {"insert", "remove", "rename", "move"},
                        key : Keys, other : Keys, at : Nat]
        OBVIOUS
    <2>3. ASSUME NEW s \in Seq(Ops) PROVE s \in Seq(R)
        <3>1. PICK n \in Nat : n = Len(s) /\ s \in [1 .. n -> Ops]
            OBVIOUS
        <3>2. s \in [1 .. n -> R]
            <4>1. Ops \subseteq R
                BY <2>1, <2>2
            <4> QED
                BY ONLY <3>1, <4>1
        <3> QED
            BY ONLY <3>1, <3>2
    <2>4. ops \in [Edits \cup Groups -> Seq(R)]
        BY <2>3 DEF TableInv, TableGood
    <2> QED
        BY <2>2, <2>4
<1> QED
    BY <1>1, <1>2, <1>3 DEF TableTypeOK, Agree, Distinct

LEMMA TableColumns == Sheltered /\ TableInv => ColumnsTrue
<1> SUFFICES ASSUME Sheltered, TableInv, NEW k \in ToSet(table.keys)
             PROVE  (IF Index(table, k) \in DOMAIN table.cells THEN table.cells[Index(table, k)]
                     ELSE << >>) = table.written[k]
    BY DEF ColumnsTrue
<1>1. Agree(table.keys, table.cells, table.length, table.written)
    BY DEF TableInv, TableGood, Tables, Sound
<1>2. table.keys \in Seq(Keys) /\ Distinct(table.keys) /\ Has(table, k)
    BY <1>1 DEF Agree, Has
<1>3. Index(table, k) \in 1 .. Len(table.keys) /\ table.keys[Index(table, k)] = k
    BY <1>2, IndexIs
<1>4. CellsAt(table.cells, Index(table, k)) = table.written[k]
    BY <1>1, <1>3 DEF Agree
<1>5. DOMAIN table.cells = 1 .. Len(table.cells)
    BY <1>1 DEF Agree, Columns
<1> QED
    BY <1>4, <1>5 DEF CellsAt

(* The types of the table: a key names one column, and the positions the   *)
(* cells are appended at are kept for exactly the keys there are, whatever *)
(* was undone, redone and reverted (m_datatableStates, datatableCache).    *)
THEOREM TableTypesHold == TableSpec => []TableTypeOK
<1>1. TableInv /\ [TableNext]_tableVars => TableInv'
    BY TableNextGood
<1> QED
    BY <1>1, TableInitially, TableTypes, PTL DEF TableSpec

(* Unless columns are moved after a script emptied the table, which        *)
(* separates them (datatableClear): below each key stands what scripts     *)
(* wrote to it since the column was made or the table emptied, through     *)
(* every undo, redo, revert and compensation (_datatableMove).             *)
THEOREM TableColumnsTrue ==
    ASSUME ~(MayMove /\ MayClear)
    PROVE  TableSpec => []ColumnsTrue
<1>1. TableInv /\ [TableNext]_tableVars => TableInv'
    BY TableNextGood
<1>2. TableInv => ColumnsTrue
    BY TableColumns DEF Sheltered
<1> QED
    BY <1>1, <1>2, TableInitially, PTL DEF TableSpec

(* An undo, redo or revert that is refused leaves the columns as they      *)
(* were, and what a turn of the agent compensates is always accepted: no   *)
(* turn is left in error, whatever the user does meanwhile (execute).      *)
THEOREM TableRefusesWhole == TableSpec => [][RefusalKeepsKeys /\ NeverTorn']_tableVars
<1>1. TableInv /\ [TableNext]_tableVars => TableInv'
    BY TableNextGood
<1>2. TableInv /\ TableInv' => [RefusalKeepsKeys /\ NeverTorn']_tableVars
    BY RefusedKeeps DEF TableInv, TableGood
<1> QED
    BY <1>1, <1>2, TableInitially, PTL DEF TableSpec

(* The history is one of UndoStack's where the table decides what is       *)
(* refused: its groups are atomic, whatever their steps do to the columns. *)
THEOREM TableGroupsAreAtomic == TableSpec => GroupsAreAtomic
<1>1. TableInv /\ [TableNext]_tableVars => TableInv'
    BY TableNextGood
<1>2. TableInv /\ [TableNext]_tableVars => [Change!Next]_status
    BY TableStep, StepRefines DEF TableInv
<1> QED
    BY <1>1, <1>2, TableInitially, PTL DEF TableSpec, GroupsAreAtomic, Change!Spec, status

(* With the table, too, each label of the history says what is in effect:  *)
(* what the user has undone is not, and what he has not is (QUndoStack's   *)
(* index, revert and the commands that are dropped).                       *)
THEOREM TableHistoryTellsTruth == TableSpec => []HistoryTellsTruth
<1>1. TableInv /\ [TableNext]_tableVars => TableInv'
    BY TableNextGood
<1>2. TableInv /\ AllTold => HistoryTellsTruth
    BY ToldTruth DEF TableInv
<1> QED
    BY <1>1, <1>2, TableInitially, TableTold, PTL DEF TableSpec
=============================================================================
