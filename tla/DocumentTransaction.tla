------------------------- MODULE DocumentTransaction -------------------------
(***************************************************************************)
(* The changes one turn of the agent makes to files and open documents     *)
(* (document/documentModule.cpp), recorded so that the user can undo them, *)
(* next to what the user does to the same documents.                       *)
(*                                                                         *)
(* Edits are collected while the turn runs: of each document the text      *)
(* before and after.  They become steps of the turn's undo group when      *)
(* their document is deleted and at the end of the turn.  Creating,        *)
(* renaming and deleting files are steps at once.  UndoStack models the    *)
(* history itself; here it is one command, and what a step does is shown.  *)
(*                                                                         *)
(* A page of a file that is renamed, deleted or written by another program *)
(* is told later, by the watcher; it closes, and opens again when the file *)
(* is there.                                                               *)
(*                                                                         *)
(* A text is the set of the edits in it.  Left out: directories, which are *)
(* renamed and deleted like the files in them; counts of changed lines;    *)
(* pages that hold no text; undo inside an editor.                         *)
(***************************************************************************)
EXTENDS Integers, Sequences

CONSTANTS Urls,
          Tools,       \* what the agent does: of "edit", "create", "rename", "delete"
          MaxTools,    \* bound: calls of tools
          MaxReused,   \* bound: files it puts where it has taken one away
          MaxTyped,    \* bound: edits of the user
          MaxSaves,    \* bound: saves of the user
          MaxWrites,   \* bound: files written by other programs
          MaxEarly     \* bound: undos and redos before the watcher has reported all

ASSUME TransactionAssumption ==
         /\ Tools \subseteq {"edit", "create", "rename", "delete"}
         /\ MaxTools \in Nat /\ MaxReused \in Nat /\ MaxTyped \in Nat
         /\ MaxSaves \in Nat /\ MaxWrites \in Nat /\ MaxEarly \in Nat

VARIABLES disk,        \* of each file, the set of its text; {} when there is none
          page,        \* of each document that is open, the set of its editor
          signal,      \* files whose change the watcher has yet to report
          reopen,      \* documents to be opened when their page is destroyed
          stage,       \* of the turn: "before", "open", "committed", then "over",
                       \* or "compensated" when a walk was refused half way
          group,       \* the steps of the undo group, whether in effect, in error
          transaction, \* documents of m_transactions
          used,        \* for the bounds
          touched,     \* documents that others than the agent have changed
          atBegin, atCommit  \* the contents then

world == <<disk, page, signal>>
ghosts == <<touched, atBegin, atCommit>>
vars == <<world, reopen, stage, group, transaction, used, ghosts>>

Texts == SUBSET ({"agent", "user", "other"} \X (1 .. MaxTools + MaxTyped + MaxWrites))
Editors == [text : Texts, modified : BOOLEAN]
Maybe(S) == {{}} \cup {{x} : x \in S}
The(S) == CHOOSE x \in S : TRUE
States == [before : Texts, after : Texts, dirty : BOOLEAN]
Docs == UNION {[us -> States] : us \in SUBSET Urls}
Worlds == [disk : [Urls -> Maybe(Texts)], page : [Urls -> Maybe(Editors)], signal : SUBSET Urls]
Steps == [kind : {"edit"}, docs : Docs]
           \cup [kind : {"create", "rename", "delete"}, url : Urls, trash : Maybe(Texts), to : Urls]

TypeOK == /\ [disk |-> disk, page |-> page, signal |-> signal] \in Worlds
          /\ reopen \subseteq Urls /\ touched \subseteq Urls
          /\ stage \in {"before", "open", "committed", "over", "compensated"}
          /\ group \in [steps : Seq(Steps), applied : BOOLEAN, error : BOOLEAN]
          /\ transaction \in Docs
          /\ used \in [tools : 0 .. MaxTools, reused : 0 .. MaxReused, typed : 0 .. MaxTyped,
                       saves : 0 .. MaxSaves, writes : 0 .. MaxWrites, early : 0 .. MaxEarly]
          /\ atBegin \in [Urls -> Maybe(Texts)] /\ atCommit \in [Urls -> Maybe(Texts)]

Text(u) == The(page[u]).text
(* The content of a document, once the watcher has closed stale pages. *)
Content(u) == IF page[u] # {} /\ u \notin signal THEN {Text(u)} ELSE disk[u]

Init == /\ disk \in [Urls -> {{}, {{}}}] /\ page = [u \in Urls |-> {}]
        /\ signal = {} /\ reopen = {} /\ touched = {}
        /\ stage = "before" /\ transaction = << >>
        /\ group = [steps |-> << >>, applied |-> TRUE, error |-> FALSE]
        /\ used = [tools |-> 0, reused |-> 0, typed |-> 0, saves |-> 0, writes |-> 0, early |-> 0]
        /\ atBegin = [u \in Urls |-> {}] /\ atCommit = [u \in Urls |-> {}]

Use(what, bound) == used[what] < bound /\ used' = [used EXCEPT ![what] = @ + 1]

(***************************************************************************)
(* Files and editors.  Each operator gives the world after it.             *)
(***************************************************************************)

World == [disk |-> disk, page |-> page, signal |-> signal]
Becomes(w) == disk' = w.disk /\ page' = w.page /\ signal' = w.signal

Fails(w, step) == [ok |-> FALSE, w |-> w, step |-> step]
Works(w, step) == [ok |-> TRUE, w |-> w, step |-> step]

(* documentOpen; a file that cannot be read gives an empty page. *)
Opened(w, us) ==
  [w EXCEPT !.page = [u \in Urls |->
     IF u \in us /\ w.page[u] = {}
     THEN {[text |-> IF w.disk[u] = {} THEN {} ELSE The(w.disk[u]), modified |-> FALSE]}
     ELSE w.page[u]]]

(* The files of open pages are watched. *)
Reported(w, u) == IF w.page[u] # {} THEN w.signal \cup {u} ELSE w.signal

Trash(w, step) ==
  LET u == step.url
  IN  IF w.disk[u] = {} THEN Fails(w, step)
      ELSE Works([w EXCEPT !.disk[u] = {}, !.signal = Reported(w, u)],
                 [step EXCEPT !.trash = w.disk[u]])
Restore(w, step) ==
  IF w.disk[step.url] # {} \/ step.trash = {} THEN Fails(w, step)
  ELSE Works([w EXCEPT !.disk[step.url] = step.trash], step)
Rename(w, from, to, step) ==
  IF w.disk[from] = {} \/ w.disk[to] # {} THEN Fails(w, step)
  ELSE Works([w EXCEPT !.disk[from] = {}, !.disk[to] = w.disk[from],
                       !.signal = Reported(w, from)], step)
Create(w, step) ==
  LET made == IF step.trash = {}
              THEN Works([w EXCEPT !.disk[step.url] = {{}}], step)
              ELSE Restore(w, step)
  IN  IF made.ok THEN Works(Opened(made.w, {step.url}), step) ELSE made

(* _transactionRedo and _transactionUndo: every document is opened; when   *)
(* all have the text to start from, all get the one to reach.              *)
At(w, docs, field) == \A u \in DOMAIN docs : The(w.page[u]).text = docs[u][field]
SetTexts(w, docs, to, modified) ==
  [w EXCEPT !.page = [u \in Urls |->
     IF u \in DOMAIN docs THEN {[text |-> docs[u][to], modified |-> modified[u]]} ELSE w.page[u]]]

Redo(w, step) ==
  LET open == Opened(w, DOMAIN step.docs)
  IN  CASE At(open, step.docs, "after") -> Works(open, step)
        [] ~At(open, step.docs, "after") /\ At(open, step.docs, "before") ->
             Works(SetTexts(open, step.docs, "after", [u \in Urls |-> TRUE]), step)
        [] OTHER -> Fails(open, step)

(* Mutant: a document is marked as saved whatever it was. *)
UndoClean(w, step) ==
  LET open == Opened(w, DOMAIN step.docs)
  IN  CASE At(open, step.docs, "before") -> Works(open, step)
        [] ~At(open, step.docs, "before") /\ At(open, step.docs, "after") ->
             Works(SetTexts(open, step.docs, "before", [u \in Urls |-> FALSE]), step)
        [] OTHER -> Fails(open, step)
Undo(w, step) ==
  LET open == Opened(w, DOMAIN step.docs)
      dirty == [u \in DOMAIN step.docs |-> step.docs[u].dirty]
  IN  CASE At(open, step.docs, "before") -> Works(open, step)
        [] ~At(open, step.docs, "before") /\ At(open, step.docs, "after") ->
             Works(SetTexts(open, step.docs, "before", dirty), step)
        [] OTHER -> Fails(open, step)

Do(w, step, redo) ==
  CASE step.kind = "edit" -> IF redo THEN Redo(w, step) ELSE Undo(w, step)
    [] step.kind = "create" -> IF redo THEN Create(w, step) ELSE Trash(w, step)
    [] step.kind = "delete" -> IF redo THEN Trash(w, step) ELSE Restore(w, step)
    [] step.kind = "rename" -> IF redo THEN Rename(w, step.url, step.to, step)
                               ELSE Rename(w, step.to, step.url, step)

(* A step of UndoGroupData::execute, and one of its compensation; done is  *)
(* how many steps were.                                                    *)
Tried(run, i, redo) ==
  LET r == Do(run.w, run.steps[i], redo)
  IN  IF ~run.ok THEN run
      ELSE [run EXCEPT !.ok = r.ok, !.w = r.w, !.steps[i] = r.step,
                       !.done = IF r.ok THEN @ + 1 ELSE @]
GoneBack(run, i, redo) ==
  LET r == Do(run.w, run.steps[i], ~redo)
  IN  [run EXCEPT !.w = r.w, !.steps[i] = r.step, !.torn = @ \/ ~r.ok]

(* Undo begins with the last step, and the compensation with the last one  *)
(* that was done.                                                          *)
Turn(steps, redo, k) == IF redo THEN k ELSE Len(steps) + 1 - k

Begun(w, steps) == [ok |-> TRUE, w |-> w, steps |-> steps, done |-> 0, torn |-> FALSE]

Ran(w, steps, redo) ==
  LET try[k \in 0 .. Len(steps)] ==
        IF k = 0 THEN Begun(w, steps) ELSE Tried(try[k - 1], Turn(steps, redo, k), redo)
      run == try[Len(steps)]
      back[k \in 0 .. run.done] ==
        IF k = 0 THEN run ELSE GoneBack(back[k - 1], Turn(steps, redo, run.done + 1 - k), redo)
  IN  IF run.ok THEN run ELSE back[run.done]

(***************************************************************************)
(* The turn.                                                               *)
(***************************************************************************)

Recorded(w, u) == [before |-> The(w.page[u]).text, after |-> The(w.page[u]).text,
                   dirty |-> The(w.page[u]).modified]
(* documentOpen adds what it opens to the transactions. *)
Joined(docs, w, w2) ==
  LET new == {u \in Urls : w.page[u] = {} /\ w2.page[u] # {}} \ DOMAIN docs
  IN  [u \in DOMAIN docs \cup new |-> IF u \in new THEN Recorded(w2, u) ELSE docs[u]]
Forget(docs, us) == [u \in DOMAIN docs \ us |-> docs[u]]

(* createTurn: transactionBegin *)
Begin ==
  /\ stage = "before" /\ stage' = "open"
  /\ transaction' = [u \in {v \in Urls : page[v] # {}} |-> Recorded(World, u)]
  /\ atBegin' = [u \in Urls |-> Content(u)]
  /\ UNCHANGED <<world, reopen, group, used, touched, atCommit>>

Changed(docs, us) == {u \in us \cap DOMAIN docs : docs[u].before # docs[u].after}
Step(kind, u, more) == [kind |-> kind, url |-> u, trash |-> {}, to |-> more]
EditStep(docs, us) == [kind |-> "edit", docs |-> [u \in Changed(docs, us) |-> docs[u]]]

Invalid == group' = [group EXCEPT !.error = TRUE]
Push(steps) == group' = [group EXCEPT !.steps = @ \o steps]

(* _transactionCheck: nobody but the agent has changed the document. *)
Kept(u) == u \in DOMAIN transaction => page[u] # {} /\ Text(u) = transaction[u].after

Call(tool) == /\ stage = "open" /\ tool \in Tools /\ Use("tools", MaxTools)
              /\ UNCHANGED <<reopen, stage, ghosts>>

(* Where a file was taken away. *)
Freed == {group.steps[n].url :
            n \in {k \in DOMAIN group.steps : group.steps[k].kind \in {"rename", "delete"}}}

(* A call that puts a file at u. *)
CallTo(tool, u) ==
  /\ stage = "open" /\ tool \in Tools /\ used.tools < MaxTools
  /\ u \in Freed => used.reused < MaxReused
  /\ used' = [used EXCEPT !.tools = @ + 1, !.reused = IF u \in Freed THEN @ + 1 ELSE @]
  /\ UNCHANGED <<reopen, stage, ghosts>>

(* Mutant: linesSet does not look at what the text is now. *)
EditUnchecked(u) ==
  /\ Call("edit") /\ disk[u] # {}
  /\ LET open == Opened(World, {u})
         joined == Joined(transaction, World, open)
         now == The(open.page[u])
         text == now.text \cup {<<"agent", used.tools + 1>>}
         new == IF u \in DOMAIN joined THEN joined[u] ELSE Recorded(open, u)
     IN  /\ Becomes([open EXCEPT !.page[u] = {[text |-> text, modified |-> TRUE]}])
         /\ transaction' = [v \in DOMAIN joined \cup {u} |->
                              IF v = u THEN [new EXCEPT !.after = text] ELSE joined[v]]
         /\ UNCHANGED group
(* linesSet *)
Edit(u) ==
  /\ Call("edit") /\ disk[u] # {}
  /\ LET open == Opened(World, {u})
         joined == Joined(transaction, World, open)
         now == The(open.page[u])
         text == now.text \cup {<<"agent", used.tools + 1>>}
         new == IF u \in DOMAIN joined THEN joined[u] ELSE Recorded(open, u)
     IN  \/ /\ new.after = now.text
            /\ Becomes([open EXCEPT !.page[u] = {[text |-> text, modified |-> TRUE]}])
            /\ transaction' = [v \in DOMAIN joined \cup {u} |->
                                 IF v = u THEN [new EXCEPT !.after = text] ELSE joined[v]]
            /\ UNCHANGED group
         \/ /\ new.after # now.text
            /\ Becomes(open) /\ transaction' = joined /\ Invalid

(* documentCreate, documentRename and documentDelete *)
CreateFile(u) ==
  /\ CallTo("create", u) /\ disk[u] = {}
  /\ LET r == Create(World, Step("create", u, u))
     IN  /\ Becomes(r.w) /\ Push(<<r.step>>)
         /\ transaction' = Joined(transaction, World, r.w)

(* Mutant: the transaction keeps the document under its old url. *)
Followed(docs, u, v) == docs
Renamed(docs, u, v) ==
  [x \in (DOMAIN docs \ {u}) \cup (IF u \in DOMAIN docs THEN {v} ELSE {}) |->
     IF x = v /\ u \in DOMAIN docs THEN docs[u] ELSE docs[x]]
RenameFile(u, v) ==
  /\ CallTo("rename", v) /\ disk[u] # {} /\ u # v
  /\ LET r == Rename(World, u, v, Step("rename", u, v))
     IN  CASE ~Kept(u) -> Invalid /\ UNCHANGED <<world, transaction>>
           [] Kept(u) /\ ~r.ok -> UNCHANGED <<world, transaction, group>>
           [] Kept(u) /\ r.ok -> /\ Becomes(r.w) /\ Push(<<r.step>>)
                                 /\ transaction' = Renamed(transaction, u, v)

DeleteFile(u) ==
  /\ Call("delete") /\ disk[u] # {}
  /\ LET r == Trash(World, Step("delete", u, u))
         edits == IF Changed(transaction, {u}) = {} THEN << >>
                  ELSE <<EditStep(transaction, {u})>>
     IN  IF Kept(u)
         THEN Becomes(r.w) /\ Push(edits \o <<r.step>>) /\ transaction' = Forget(transaction, {u})
         ELSE Invalid /\ UNCHANGED <<world, transaction>>

(* finishTurn: transactionCommit with its flush, then undoGroupCommit. *)
Commit ==
  /\ stage = "open"
  /\ LET step == EditStep(transaction, Urls)
         r == IF DOMAIN step.docs = {} THEN Works(World, step) ELSE Redo(World, step)
     IN  /\ Becomes(r.w)
         /\ CASE DOMAIN step.docs = {} -> UNCHANGED group
              [] DOMAIN step.docs # {} /\ r.ok -> Push(<<step>>)
              [] DOMAIN step.docs # {} /\ ~r.ok -> Invalid
  /\ stage' = IF group'.steps = << >> /\ ~group'.error THEN "over" ELSE "committed"
  /\ transaction' = << >>
  /\ atCommit' = [u \in Urls |-> Content(u)']
  /\ UNCHANGED <<reopen, used, touched, atBegin>>

(* The user undoes or redoes the turn; a refused command is dropped. *)
Walk(redo) ==
  /\ stage = "committed" /\ group.applied # redo
  /\ IF signal = {} /\ reopen = {} THEN UNCHANGED used ELSE Use("early", MaxEarly)
  /\ LET run == Ran(World, group.steps, redo)
     IN  IF group.error THEN stage' = "over" /\ UNCHANGED <<world, group>>
         ELSE /\ Becomes(run.w)
              /\ stage' = IF run.ok THEN stage ELSE IF run.done = 0 THEN "over" ELSE "compensated"
              /\ group' = [steps |-> run.steps, error |-> ~run.ok /\ run.torn,
                           applied |-> IF run.ok THEN redo ELSE group.applied]
  /\ UNCHANGED <<reopen, transaction, ghosts>>

(***************************************************************************)
(* The user, other programs and the watcher.                               *)
(***************************************************************************)

Loaded(us) ==
  LET open == Opened(World, us)
  IN  /\ Becomes(open)
      /\ transaction' = IF stage = "open" THEN Joined(transaction, World, open) ELSE transaction

Open(u) == /\ page[u] = {} /\ disk[u] # {} /\ Loaded({u})
           /\ UNCHANGED <<reopen, stage, group, used, ghosts>>

(* The documents whose content the turn moves with that of u. *)
Moved == UNION {{group.steps[n].url, group.steps[n].to} :
                  n \in {k \in DOMAIN group.steps : group.steps[k].kind = "rename"}}
Touch(u) == touched' = touched \cup (IF u \in Moved THEN Moved ELSE {u})

Type(u) ==
  /\ page[u] # {} /\ Use("typed", MaxTyped)
  /\ page' = [page EXCEPT ![u] = {[text |-> Text(u) \cup {<<"user", used'.typed>>},
                                   modified |-> TRUE]}]
  /\ Touch(u)
  /\ UNCHANGED <<disk, signal, reopen, stage, group, transaction, atBegin, atCommit>>

(* A file that is gone is written anew. *)
Save(u) ==
  /\ page[u] # {} /\ The(page[u]).modified /\ Use("saves", MaxSaves)
  /\ disk' = [disk EXCEPT ![u] = {Text(u)}]
  /\ page' = [page EXCEPT ![u] = {[text |-> Text(u), modified |-> FALSE]}]
  /\ IF disk[u] = {} THEN Touch(u) ELSE UNCHANGED touched
  /\ UNCHANGED <<signal, reopen, stage, group, transaction, atBegin, atCommit>>

(* A modified document is closed after the question, here without saving. *)
Close(u) ==
  /\ page[u] # {}
  /\ page' = [page EXCEPT ![u] = {}]
  /\ IF The(page[u]).modified THEN Touch(u) ELSE UNCHANGED touched
  /\ UNCHANGED <<disk, signal, reopen, stage, group, transaction, used, atBegin, atCommit>>

OtherWrites(u) ==
  /\ Use("writes", MaxWrites)
  /\ disk' = [disk EXCEPT ![u] = {{<<"other", used'.writes>>}}]
  /\ signal' = Reported(World, u)
  /\ Touch(u)
  /\ UNCHANGED <<page, reopen, stage, group, transaction, atBegin, atCommit>>

(* documentReload closes the page without a question. *)
Report(u) ==
  /\ u \in signal /\ signal' = signal \ {u}
  /\ page' = [page EXCEPT ![u] = {}]
  /\ reopen' = IF page[u] # {} THEN reopen \cup {u} ELSE reopen
  /\ UNCHANGED <<disk, stage, group, transaction, used, ghosts>>

Destroyed(u) ==
  /\ u \in reopen /\ reopen' = reopen \ {u}
  /\ Loaded(IF disk[u] # {} THEN {u} ELSE {})
  /\ UNCHANGED <<stage, group, used, ghosts>>

Next == \/ Begin \/ Commit
        \/ \E u \in Urls : \/ Edit(u) \/ CreateFile(u) \/ DeleteFile(u)
                           \/ \E v \in Urls : RenameFile(u, v)
        \/ \E redo \in BOOLEAN : Walk(redo)
        \/ \E u \in Urls : Open(u) \/ Type(u) \/ Save(u) \/ Close(u) \/ OtherWrites(u)
        \/ \E u \in Urls : Report(u) \/ Destroyed(u)

Spec == Init /\ [][Next]_vars

(***************************************************************************)
(* Properties.                                                             *)
(***************************************************************************)

Typed(t) == {e \in t : e[1] = "user"}

(* Undoing or redoing the turn takes nothing that was typed out of a       *)
(* document that is open: _transactionUndo and _transactionRedo look at    *)
(* every text before they set any, and linesSet at the text it extends.    *)
TypingSpared ==
  [][\A redo \in BOOLEAN : Walk(redo) =>
       \A u \in Urls : page[u] # {} =>
         page'[u] # {} /\ Typed(Text(u)) \subseteq Typed(Text(u)')]_vars

Restored == \A u \in Urls \ touched : Content(u) = IF group.applied THEN atCommit[u] ELSE atBegin[u]
Settled == ~group.error /\ signal = {} /\ reopen = {}

(* When the turn has been undone every document is as it was when the turn *)
(* began, and when it is redone, or the undo was refused at its first      *)
(* step, as when it ended, for documents that nobody else changed: through *)
(* edits that are not saved, deleted and renamed files, and pages closed   *)
(* by the watcher.                                                         *)
UndoRestores ==
  Settled /\ (stage \in {"committed", "over"} \/ (stage = "compensated" /\ ~group.applied)) =>
    Restored

(* The same of an undo that was refused half way and compensated: the      *)
(* watcher still reports the files it took away and put back.              *)
CompensationRestores == Settled /\ stage = "compensated" /\ group.applied => Restored

(* A document that is not marked as modified is the same as its file, so   *)
(* that closing it needs no question and saving it nothing to write.       *)
CleanMeansSaved ==
  \A u \in Urls : page[u] # {} /\ ~The(page[u]).modified /\ u \notin signal =>
    disk[u] = {Text(u)}

(* So far only the agent has written files, and nowhere twice.             *)
Apart == used.saves = 0 /\ used.writes = 0 /\ used.reused = 0

(* A turn that is undone gives back what was there, as long as nobody      *)
(* saves or writes files and the user leaves the watcher the time to       *)
(* report (_transactionUndo, _transactionFlush).                           *)
UndoRestoresApart == Apart /\ used.early = 0 => UndoRestores

(* As long as nobody else writes files, a document that is not marked as   *)
(* modified is the same as its file, before and after an undo (linesSet).  *)
CleanMeansSavedApart == Apart => CleanMeansSaved

(* What the user has typed is in a page, a file or the trash, unless he    *)
(* closes the page himself.                                                *)
Somewhere ==
  UNION {Typed(The(page[u]).text) : u \in {v \in Urls : page[v] # {}}}
    \cup UNION {Typed(The(disk[u])) : u \in {v \in Urls : disk[v] # {}}}
    \cup UNION {Typed(The(group.steps[n].trash)) :
                  n \in {k \in DOMAIN group.steps : /\ group.steps[k].kind # "edit"
                                                    /\ group.steps[k].trash # {}}}
TypingKept ==
  [][\/ Somewhere \subseteq Somewhere'
     \/ \E u \in Urls : Close(u) \/ OtherWrites(u)]_vars
=============================================================================
