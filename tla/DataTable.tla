----------------------------- MODULE DataTable -----------------------------
(***************************************************************************)
(* src/src/data/datatableModule.cpp on top of the undo history: the        *)
(* columns of the data table, which the user and the agent insert, remove, *)
(* rename and move, and the cells that scripts write.  databaseModule.cpp  *)
(* is the same with one value next to each key.                            *)
(*                                                                         *)
(* UndoStack says what undo, redo and revert do to the history and leaves  *)
(* open whether an action is refused.  Here the actions are known: each    *)
(* step of UndoStack is taken together with its effect on the table, which *)
(* decides what is refused and what a group compensates.                   *)
(*                                                                         *)
(* Two models hold the table, the keys and the cells; QStandardItemModel   *)
(* ignores an insertion beyond its last column and forgets the items, and  *)
(* grows when a cell beyond it is set.  Positions count from one.          *)
(***************************************************************************)
EXTENDS UndoStack, SequencesExt

CONSTANTS Keys,
          Start,      \* the keys of the workspace, in their order
          Values,     \* of cells
          Apart,      \* whether the user leaves the history alone during a turn
          MayMove, MayClear, \* whether columns are moved, and scripts clear the table
          MaxRows     \* bound on the rows

ASSUME TableAssumption ==
         /\ Start \in Seq(Keys)
         /\ \A i, j \in DOMAIN Start : Start[i] = Start[j] => i = j
         /\ Apart \in BOOLEAN /\ MayMove \in BOOLEAN /\ MayClear \in BOOLEAN
         /\ MaxRows \in Nat

VARIABLES table,    \* keys, cells and the length of each column, and what was written to it
          ops,      \* of each edit and group: what its steps do to the table
          shots     \* the orders of the keys at each place of the history

tableVars == <<vars, table, ops, shots>>

TableInit == /\ Init
             /\ table = [keys |-> Start, cells |-> [i \in 1 .. Len(Start) |-> << >>],
                         length |-> [k \in ToSet(Start) |-> 0],
                         written |-> [k \in ToSet(Start) |-> << >>]]
             /\ ops = [x \in Edits \cup Groups |-> << >>]
             /\ shots = <<Start>>

(***************************************************************************)
(* QStandardItemModel.                                                     *)
(***************************************************************************)

InsertColumn(cells, at, column) ==
  IF at <= Len(cells) + 1 THEN InsertAt(cells, at, column) ELSE cells
RemoveColumn(cells, at) == IF at <= Len(cells) THEN RemoveAt(cells, at) ELSE cells

Blank == ""
Padded(s, n, with) == [i \in 1 .. IF n > Len(s) THEN n ELSE Len(s) |->
                         IF i <= Len(s) THEN s[i] ELSE with]
SetItem(cells, row, at, value) ==
  [Padded(cells, at, << >>) EXCEPT ![at] = [Padded(@, row, Blank) EXCEPT ![row] = value]]

(***************************************************************************)
(* The table.                                                              *)
(***************************************************************************)

Has(t, k) == k \in ToSet(t.keys)
Index(t, k) == IF Has(t, k) THEN CHOOSE i \in DOMAIN t.keys : t.keys[i] = k ELSE 0

WithKey(f, k, x) == [q \in DOMAIN f \cup {k} |-> IF q = k THEN x ELSE f[q]]
WithoutKey(f, k) == [q \in DOMAIN f \ {k} |-> f[q]]
WithKeyAs(f, old, new) == WithKey(WithoutKey(f, old), new, f[old])

Inserted(t, at, k) == [keys |-> InsertAt(t.keys, at, k),
                       cells |-> InsertColumn(t.cells, at, << >>),
                       length |-> WithKey(t.length, k, 0),
                       written |-> WithKey(t.written, k, << >>)]
Removed(t, k) == [keys |-> RemoveAt(t.keys, Index(t, k)),
                  cells |-> RemoveColumn(t.cells, Index(t, k)),
                  length |-> WithoutKey(t.length, k),
                  written |-> WithoutKey(t.written, k)]
Renamed(t, old, new) == [keys |-> [t.keys EXCEPT ![Index(t, old)] = new],
                         cells |-> t.cells,
                         length |-> WithKeyAs(t.length, old, new),
                         written |-> WithKeyAs(t.written, old, new)]
(* Mutant: the cells stay where they are. *)
MovedKeyOnly(t, src, dst) ==
  [t EXCEPT !.keys = InsertAt(RemoveAt(@, src), dst, t.keys[src])]
Moved(t, src, dst) ==
  [t EXCEPT !.keys = InsertAt(RemoveAt(@, src), dst, t.keys[src]),
            !.cells = InsertColumn(RemoveColumn(@, src), dst,
                                   IF src <= Len(@) THEN @[src] ELSE << >>)]

(***************************************************************************)
(* What is pushed: the two functions of insert, remove, rename and move,   *)
(* which share the place at.  They give the table, the place and whether   *)
(* they succeed.                                                           *)
(***************************************************************************)

Refused(t, op) == [ok |-> FALSE, table |-> t, op |-> op]
Succeeds(t, op) == [ok |-> TRUE, table |-> t, op |-> op]

PutIn(t, op) == IF ~Has(t, op.key) /\ op.at \in 1 .. Len(t.keys) + 1
                THEN Succeeds(Inserted(t, op.at, op.key), op) ELSE Refused(t, op)
(* Mutant: the place is not remembered. *)
TakeOutForgetting(t, op) == IF Has(t, op.key) THEN Succeeds(Removed(t, op.key), op) ELSE Refused(t, op)
TakeOut(t, op) ==
  LET placed == [op EXCEPT !.at = Index(t, op.key)]
  IN  IF Has(t, op.key) THEN Succeeds(Removed(t, op.key), placed) ELSE Refused(t, placed)

Rename(t, op, old, new) == IF Has(t, old) /\ ~Has(t, new)
                           THEN Succeeds(Renamed(t, old, new), op) ELSE Refused(t, op)

Move(t, op, dst) == IF Has(t, op.key) /\ dst \in DOMAIN t.keys
                    THEN Succeeds(Moved(t, Index(t, op.key), dst), op) ELSE Refused(t, op)

Apply(t, op, redo) ==
  CASE op.kind = "insert" -> IF redo THEN PutIn(t, op) ELSE TakeOut(t, op)
    [] op.kind = "remove" -> IF redo THEN TakeOut(t, op) ELSE PutIn(t, op)
    [] op.kind = "rename" -> IF redo THEN Rename(t, op, op.key, op.other)
                                     ELSE Rename(t, op, op.other, op.key)
    [] op.kind = "move"   -> Move(t, op, IF redo THEN Index(t, op.other) ELSE op.at)

(* execute of a group: one step after the other until one is refused;      *)
(* those that were done are then compensated, the last first.  A run is    *)
(* what has come of it; like the outcomes of UndoStack they are a set.     *)
Begun(t, steps) == [table |-> t, ops |-> steps, ok |-> TRUE, done |-> << >>, lost |-> {}]
Tried(run, i, redo) == {[run EXCEPT !.table = r.table, !.ops[i] = r.op, !.ok = r.ok] :
                           r \in {Apply(run.table, run.ops[i], redo)}}
Goes(run, i, redo) == IF ~run.ok THEN {run}
                      ELSE {IF r.ok THEN [r EXCEPT !.done = Append(@, i)] ELSE r :
                               r \in Tried(run, i, redo)}
GoesBack(run, i, redo) == {IF r.ok THEN r ELSE [r EXCEPT !.lost = @ \cup {i}] :
                              r \in Tried(run, i, ~redo)}

Attempt(t, steps, redo) ==
  FoldLeft(LAMBDA runs, i : UNION {Goes(run, i, redo) : run \in runs}, {Begun(t, steps)},
           [i \in DOMAIN steps |-> IF redo THEN i ELSE Len(steps) - i + 1])
Compensate(run, redo) ==
  FoldLeft(LAMBDA runs, i : UNION {GoesBack(r, i, redo) : r \in runs}, {run}, Reverse(run.done))
(* Mutant: what was done before the refusal is left. *)
RunHalf(t, steps, redo) == Attempt(t, steps, redo)
Run(t, steps, redo) ==
  UNION {IF run.ok THEN {run}
         ELSE {[back EXCEPT !.ok = FALSE] : back \in Compensate(run, redo)} :
            run \in Attempt(t, steps, redo)}

(***************************************************************************)
(* The steps of the history with their effect on the table.                *)
(***************************************************************************)

Takes(g, redo, ok) ==
  LET d == groups[g]
  IN  \/ /\ d.error \/ d.applied = redo
         /\ ~ok /\ UNCHANGED <<table, ops>>
      \/ /\ ~d.error /\ d.applied # redo
         /\ \E run \in Run(table, ops[g], redo) :
               /\ ok = run.ok
               /\ groups' = [groups EXCEPT ![g] = IF run.ok THEN Whole(d, redo)
                                                  ELSE Compensated(d, redo, run.lost)]
               /\ table' = run.table /\ ops' = [ops EXCEPT ![g] = run.ops]

Executes(c, redo, ok) ==
  \/ /\ c.kind = "edit"
     /\ \E r \in {Apply(table, ops[c.of][1], redo)} :
           ok = r.ok /\ table' = r.table /\ ops' = [ops EXCEPT ![c.of] = <<r.op>>]
  \/ c.kind = "commit" /\ Takes(c.of, redo, ok)
  \/ c.kind = "revert" /\ Takes(c.of, ~redo, ok)

(* The order of the keys after what has been pushed. *)
Noted == shots' = IF Apart
                  THEN LET all == Append(SubSeq(shots, 1, index + 1), table'.keys)
                       IN  SubSeq(all, Len(all) - index', Len(all))
                  ELSE shots
Back(ok) == /\ StepBack(ok) /\ Executes(stack[index], FALSE, ok)
            /\ UNCHANGED shots
Forward(ok) == /\ StepForward(ok) /\ Executes(stack[index + 1], TRUE, ok)
               /\ UNCHANGED shots

(***************************************************************************)
(* The operations.  The user's edits stand on the history by themselves,   *)
(* the agent's are the steps of the group of its turn; the tools of the    *)
(* agent insert at the end and remove, nothing else.                       *)
(***************************************************************************)

Open == {g \in known : ~groups[g].committed}
Mine == ~Apart \/ Open = {}      \* the user may act

Makes(op) == \E r \in {Apply(table, op, TRUE)} : r.ok /\ table' = r.table

Pushes(e, op) == /\ Mine /\ PushEdit(e, TRUE)
                 /\ Makes(op) /\ ops' = [ops EXCEPT ![e] = <<op>>]
                 /\ Noted

Placed(kind, k, other, at) == [kind |-> kind, key |-> k, other |-> other, at |-> at]

(* targetKey, or the end. *)
DatatableInsert(e, k, at) ==
  ~Has(table, k) /\ Pushes(e, Placed("insert", k, k, at))
DatatableRemove(e, k) ==
  Has(table, k) /\ Pushes(e, Placed("remove", k, k, Index(table, k)))
DatatableRename(e, k, new) ==
  Has(table, k) /\ ~Has(table, new) /\ Pushes(e, Placed("rename", k, new, 0))
(* Columns are dragged in the header of the view, which shows those the    *)
(* model of the cells has.                                                 *)
DatatableMove(e, k, target) ==
  /\ MayMove /\ k # target /\ Has(table, k) /\ Has(table, target)
  /\ {Index(table, k), Index(table, target)} \subseteq DOMAIN table.cells
  /\ Pushes(e, Placed("move", k, target, Index(table, k)))

ToolDoes(g, op) == /\ PushStep(g) /\ Makes(op)
                   /\ ops' = [ops EXCEPT ![g] = Append(@, op)]
                   /\ UNCHANGED shots
ToolInserts(g, k) == ~Has(table, k) /\ ToolDoes(g, Placed("insert", k, k, Len(table.keys) + 1))
ToolRemoves(g, k) == Has(table, k) /\ ToolDoes(g, Placed("remove", k, k, Index(table, k)))

(* createTurn releases the group of the turn before. *)
TurnBegins(g) == /\ Idle /\ Open = {} /\ g \notin begun
                 /\ begun' = begun \cup {g} /\ known' = {g}
                 /\ UNCHANGED <<groups, history, single, failed, table, ops, shots>>
TurnEnds(g) == /\ UndoGroupCommit(g) /\ UNCHANGED <<table, ops>>
               /\ IF groups[g].steps = << >> THEN UNCHANGED shots ELSE Noted
TurnReverted(g, ok) ==
  /\ Mine /\ UndoGroupRevert(g, ok) /\ Takes(g, FALSE, ok)
  /\ IF ok THEN Noted ELSE shots' = IF Apart THEN SubSeq(shots, 1, index + 1) ELSE shots

UserGoes(target) == Mine /\ SetIndex(target) /\ UNCHANGED <<table, ops, shots>>

(* A script appends to a column, or empties the table. *)
Script(t) == Idle /\ table' = t /\ UNCHANGED <<vars, ops, shots>>
DatatableWrite(k, v) ==
  /\ Has(table, k) /\ table.length[k] < MaxRows
  /\ Script([table EXCEPT !.cells = SetItem(@, table.length[k] + 1, Index(table, k), v),
                          !.length[k] = @ + 1, !.written[k] = Append(@, v)])
DatatableClear ==
  /\ MayClear
  /\ Script([table EXCEPT !.cells = << >>, !.length = [k \in DOMAIN @ |-> 0],
                          !.written = [k \in DOMAIN @ |-> << >>]])

UserEdits(e) ==
  \E k \in Keys : \/ \E at \in 1 .. Len(table.keys) + 1 : DatatableInsert(e, k, at)
                  \/ DatatableRemove(e, k)
                  \/ \E other \in Keys : DatatableRename(e, k, other) \/ DatatableMove(e, k, other)
AgentTurns(g) == \/ TurnBegins(g) \/ TurnEnds(g)
                 \/ \E k \in Keys : ToolInserts(g, k) \/ ToolRemoves(g, k)

TableNext == \/ \E e \in Edits : UserEdits(e)
             \/ \E g \in Groups : AgentTurns(g)
             \/ \E g \in Groups, ok \in BOOLEAN : TurnReverted(g, ok)
             \/ \E target \in 0 .. Limit : UserGoes(target)
             \/ \E ok \in BOOLEAN : Back(ok) \/ Forward(ok)
             \/ \E k \in Keys, v \in Values : DatatableWrite(k, v)
             \/ DatatableClear

TableSpec == TableInit /\ [][TableNext]_tableVars

(***************************************************************************)
(* Properties.                                                             *)
(***************************************************************************)

(* The types of the table: a key names one column, and the positions the   *)
(* cells are appended at are kept for exactly the keys there are, whatever *)
(* was undone, redone and reverted (m_datatableStates, datatableCache).    *)
TableTypeOK == /\ table.keys \in Seq(Keys)
               /\ \A i, j \in DOMAIN table.keys : table.keys[i] = table.keys[j] => i = j
               /\ DOMAIN table.length = ToSet(table.keys)
               /\ DOMAIN table.written = ToSet(table.keys)
               /\ Len(table.cells) <= Len(table.keys)
               /\ ops \in [Edits \cup Groups ->
                            Seq([kind : {"insert", "remove", "rename", "move"},
                                 key : Keys, other : Keys, at : Nat])]

(* Below a key stands what scripts wrote to it since the column was made   *)
(* or the table emptied, in that order and nothing else, although the two  *)
(* models are changed by separate calls and one ignores what the other     *)
(* does (_datatableMove, datatableWrite).                                  *)
ColumnsTrue ==
  \A k \in ToSet(table.keys) :
      (IF Index(table, k) \in DOMAIN table.cells THEN table.cells[Index(table, k)] ELSE << >>)
          = table.written[k]

(* When the user leaves the history alone during a turn, walking through   *)
(* it gives back exactly the order of the columns there was at each place, *)
(* and nothing is refused, through turns that were reverted after others   *)
(* had edited the table (the shared place of push's two functions).        *)
HistoryExact ==
  Apart => /\ Idle /\ Open = {} => /\ Len(shots) = Len(stack) + 1
                                   /\ table.keys = shots[index + 1]
           /\ ~ENABLED Back(FALSE) /\ ~ENABLED Forward(FALSE)

(* An undo, redo or revert that is refused leaves the columns as they      *)
(* were, those that the group had already changed included (execute).      *)
RefusalKeepsKeys ==
  Back(FALSE) \/ Forward(FALSE) \/ (\E g \in Groups : TurnReverted(g, FALSE))
      => table'.keys = table.keys

(* What a group compensates is accepted: no turn of the agent is ever left *)
(* in error by the data table, even when the user edits it meanwhile.      *)
NeverTorn == \A g \in Groups : ~groups[g].error
=============================================================================
