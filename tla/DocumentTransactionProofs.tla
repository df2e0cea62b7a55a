--------------------- MODULE DocumentTransactionProofs ---------------------
(***************************************************************************)
(* Proofs about DocumentTransaction, for every set of files, every set of  *)
(* tools and every bound.                                                  *)
(***************************************************************************)
EXTENDS DocumentTransaction, SequenceTheorems, WellFoundedInduction, TLAPS

(***************************************************************************)
(* Sets of at most one element, texts and documents.                       *)
(***************************************************************************)

(* An equation that is not to be taken apart where it is cited. *)
Same(x, y) == x = y

(* Two steps that do the same to the same file. *)
SameFile(s, t) == s.kind = t.kind /\ s.url = t.url /\ s.to = t.to

LEMMA TheOne == ASSUME NEW x PROVE The({x}) = x
<1> QED BY DEF The

LEMMA MaybeIs ==
  ASSUME NEW S, NEW s \in Maybe(S), s # {}
  PROVE  The(s) \in S /\ s = {The(s)}
<1>1. PICK x \in S : s = {x}
  BY DEF Maybe
<1> QED BY <1>1, TheOne

LEMMA OneIn == ASSUME NEW S, NEW x \in S PROVE {x} \in Maybe(S) /\ {} \in Maybe(S) /\ {x} # {}
<1> QED BY DEF Maybe

LEMMA EmptyText == {} \in Texts /\ {{}} \in Maybe(Texts)
<1>1. {} \in Texts
  BY DEF Texts
<1> QED BY <1>1, OneIn

LEMMA EditorIs ==
  ASSUME NEW e \in Editors
  PROVE  e.text \in Texts /\ e.modified \in BOOLEAN /\ e = [text |-> e.text, modified |-> e.modified]
<1> QED BY DEF Editors

LEMMA PageIs ==
  ASSUME NEW w \in Worlds, NEW u \in Urls, w.page[u] # {}
  PROVE  /\ w.page[u] = {The(w.page[u])} /\ The(w.page[u]) \in Editors
         /\ The(w.page[u]).text \in Texts /\ The(w.page[u]).modified \in BOOLEAN
<1>1. w.page[u] \in Maybe(Editors)
  BY DEF Worlds
<1> QED BY <1>1, MaybeIs, EditorIs

LEMMA DiskIs ==
  ASSUME NEW w \in Worlds, NEW u \in Urls
  PROVE  /\ w.disk[u] \in Maybe(Texts)
         /\ w.disk[u] # {} => The(w.disk[u]) \in Texts /\ w.disk[u] = {The(w.disk[u])}
<1>1. w.disk[u] \in Maybe(Texts)
  BY DEF Worlds
<1> QED BY <1>1, MaybeIs

LEMMA WorldIs ==
  ASSUME NEW d, NEW p, NEW s
  PROVE  /\ [disk |-> d, page |-> p, signal |-> s] \in Worlds
              <=> d \in [Urls -> Maybe(Texts)] /\ p \in [Urls -> Maybe(Editors)] /\ s \subseteq Urls
<1> QED BY DEF Worlds

LEMMA InWorlds ==
  ASSUME NEW w, w = [disk |-> w.disk, page |-> w.page, signal |-> w.signal],
         w.disk \in [Urls -> Maybe(Texts)], w.page \in [Urls -> Maybe(Editors)], w.signal \subseteq Urls
  PROVE  w \in Worlds
<1> QED BY DEF Worlds

LEMMA DocsAre ==
  ASSUME NEW docs \in Docs
  PROVE  /\ DOMAIN docs \subseteq Urls
         /\ \A u \in DOMAIN docs : /\ docs[u].before \in Texts /\ docs[u].after \in Texts
                                   /\ docs[u].dirty \in BOOLEAN /\ docs[u] \in States
<1>1. PICK us \in SUBSET Urls : docs \in [us -> States]
  BY DEF Docs
<1> QED BY <1>1 DEF States

LEMMA DocsMade ==
  ASSUME NEW us \in SUBSET Urls, NEW docs \in [us -> States]
  PROVE  docs \in Docs
<1> QED BY DEF Docs

LEMMA StepIs ==
  ASSUME NEW step \in Steps
  PROVE  /\ step.kind \in {"edit", "create", "rename", "delete"}
         /\ step.kind = "edit" => step.docs \in Docs
         /\ step.kind # "edit" => /\ step.url \in Urls /\ step.trash \in Maybe(Texts)
                                  /\ step.to \in Urls
                                  /\ step = [kind |-> step.kind, url |-> step.url,
                                             trash |-> step.trash, to |-> step.to]
<1> QED BY DEF Steps

(***************************************************************************)
(* Files and editors.                                                      *)
(***************************************************************************)

LEMMA OpenedIs ==
  ASSUME NEW w \in Worlds, NEW us
  PROVE  /\ Opened(w, us) \in Worlds
         /\ Same(Opened(w, us).disk, w.disk) /\ Same(Opened(w, us).signal, w.signal)
         /\ \A u \in Urls :
              /\ w.page[u] # {} \/ u \notin us => Same(Opened(w, us).page[u], w.page[u])
              /\ u \in us => Opened(w, us).page[u] # {}
              /\ w.page[u] = {} /\ u \in us /\ w.disk[u] # {} =>
                   Same(Opened(w, us).page[u], {[text |-> The(w.disk[u]), modified |-> FALSE]})
              /\ w.page[u] = {} /\ u \in us /\ w.disk[u] = {} =>
                   Same(Opened(w, us).page[u], {[text |-> {}, modified |-> FALSE]})
<1> DEFINE New(u) == IF u \in us /\ w.page[u] = {}
                     THEN {[text |-> IF w.disk[u] = {} THEN {} ELSE The(w.disk[u]), modified |-> FALSE]}
                     ELSE w.page[u]
           pages == [u \in Urls |-> New(u)]
<1>1. ASSUME NEW u \in Urls PROVE New(u) \in Maybe(Editors)
  <2>1. w.page[u] \in Maybe(Editors)
    BY DEF Worlds
  <2>2. (IF w.disk[u] = {} THEN {} ELSE The(w.disk[u])) \in Texts
    BY DiskIs, EmptyText
  <2>3. [text |-> IF w.disk[u] = {} THEN {} ELSE The(w.disk[u]), modified |-> FALSE] \in Editors
    BY <2>2 DEF Editors
  <2> QED BY <2>1, <2>3, OneIn
<1>2. pages \in [Urls -> Maybe(Editors)]
  BY <1>1
<1>3. /\ Opened(w, us) = [w EXCEPT !.page = pages]
      /\ w = [disk |-> w.disk, page |-> w.page, signal |-> w.signal]
      /\ w.disk \in [Urls -> Maybe(Texts)] /\ w.signal \subseteq Urls
  BY DEF Opened, Worlds
<1> HIDE DEF pages
<1>4. Opened(w, us) = [disk |-> w.disk, page |-> pages, signal |-> w.signal]
  BY <1>3
<1>5. Opened(w, us) \in Worlds
  BY <1>2, <1>3, <1>4, WorldIs
<1>6. \A u \in Urls : pages[u] = New(u)
  BY DEF pages
<1>7. /\ Opened(w, us).disk = w.disk /\ Opened(w, us).signal = w.signal
      /\ \A u \in Urls : Opened(w, us).page[u] = New(u)
  <2> HIDE DEF New
  <2> QED BY <1>4, <1>6
<1>8. ASSUME NEW u \in Urls
      PROVE  /\ w.page[u] # {} \/ u \notin us => New(u) = w.page[u]
             /\ u \in us => New(u) # {}
             /\ w.page[u] = {} /\ u \in us /\ w.disk[u] # {} =>
                  New(u) = {[text |-> The(w.disk[u]), modified |-> FALSE]}
             /\ w.page[u] = {} /\ u \in us /\ w.disk[u] = {} =>
                  New(u) = {[text |-> {}, modified |-> FALSE]}
  <2>1. CASE u \in us /\ w.page[u] = {}
    <3>1. PICK t : t = IF w.disk[u] = {} THEN {} ELSE The(w.disk[u])
      OBVIOUS
    <3>2. PICK e : e = [text |-> t, modified |-> FALSE]
      OBVIOUS
    <3>3. New(u) = {e}
      BY <2>1, <3>1, <3>2
    <3> HIDE DEF New
    <3>4. New(u) # {}
      BY <3>3
    <3>5. w.disk[u] # {} => e = [text |-> The(w.disk[u]), modified |-> FALSE]
      BY <3>1, <3>2
    <3>6. w.disk[u] = {} => e = [text |-> {}, modified |-> FALSE]
      BY <3>1, <3>2
    <3> QED BY <2>1, <3>3, <3>4, <3>5, <3>6
  <2>2. CASE ~(u \in us /\ w.page[u] = {})
    BY <2>2
  <2> QED BY <2>1, <2>2
<1> HIDE DEF New
<1> QED BY <1>5, <1>7, <1>8 DEF Same

FileKinds == {"create", "rename", "delete"}

LEMMA Retrashed ==
  ASSUME NEW step \in Steps, step.kind # "edit", NEW t \in Maybe(Texts), NEW new,
         new = [step EXCEPT !.trash = t]
  PROVE  /\ new \in Steps /\ new.kind = step.kind /\ new.url = step.url /\ new.to = step.to
         /\ new.trash = t
<1>1. /\ step = [kind |-> step.kind, url |-> step.url, trash |-> step.trash, to |-> step.to]
      /\ step.kind \in FileKinds /\ step.url \in Urls /\ step.to \in Urls
  BY StepIs DEF FileKinds
<1>2. new = [kind |-> step.kind, url |-> step.url, trash |-> t, to |-> step.to]
  BY <1>1
<1> QED BY <1>1, <1>2 DEF Steps, FileKinds

LEMMA TrashIs ==
  ASSUME NEW w \in Worlds, NEW step \in Steps, step.kind # "edit", NEW r, r = Trash(w, step)
  PROVE  /\ r.w \in Worlds /\ r.step \in Steps /\ r.ok \in BOOLEAN /\ (r.ok <=> w.disk[step.url] # {})
         /\ SameFile(r.step, step) /\ Same(r.w.page, w.page)
         /\ ~r.ok => Same(r.w, w) /\ Same(r.step, step)
         /\ r.ok => /\ Same(r.w.disk, [w.disk EXCEPT ![step.url] = {}])
                    /\ Same(r.w.signal, Reported(w, step.url))
                    /\ Same(r.step.trash, w.disk[step.url])
<1>1. step.url \in Urls /\ w.disk[step.url] \in Maybe(Texts)
  BY StepIs, DiskIs
<1>2. CASE w.disk[step.url] = {}
  BY <1>1, <1>2 DEF Trash, Fails, Same, SameFile
<1>3. CASE w.disk[step.url] # {}
  <2>1. PICK w2, new : /\ w2 = [w EXCEPT !.disk[step.url] = {}, !.signal = Reported(w, step.url)]
                       /\ new = [step EXCEPT !.trash = w.disk[step.url]]
    OBVIOUS
  <2>2. r = [ok |-> TRUE, w |-> w2, step |-> new]
    BY <1>3, <2>1 DEF Trash, Works
  <2>3. new \in Steps /\ new.kind = step.kind /\ new.url = step.url /\ new.to = step.to
        /\ new.trash = w.disk[step.url]
    BY <1>1, <2>1, Retrashed
  <2>4. /\ w2.page = w.page /\ w2.disk = [w.disk EXCEPT ![step.url] = {}]
        /\ w2.signal = Reported(w, step.url)
        /\ w2 = [disk |-> w2.disk, page |-> w2.page, signal |-> w2.signal]
    BY <2>1 DEF Worlds
  <2>5. w2 \in Worlds
    <3>1. w2.disk \in [Urls -> Maybe(Texts)]
      BY <1>1, <2>4 DEF Worlds, Maybe
    <3>2. w2.page \in [Urls -> Maybe(Editors)] /\ w2.signal \subseteq Urls
      BY <1>1, <2>4 DEF Worlds, Reported
    <3> QED BY <2>4, <3>1, <3>2, InWorlds
  <2>6. r.ok = TRUE /\ r.w = w2 /\ r.step = new
    BY <2>2
  <2> QED BY <1>3, <2>3, <2>4, <2>5, <2>6 DEF SameFile, Same
<1> QED BY <1>2, <1>3

LEMMA RestoreIs ==
  ASSUME NEW w \in Worlds, NEW step \in Steps, step.kind # "edit", NEW r, r = Restore(w, step)
  PROVE  /\ r.w \in Worlds /\ Same(r.step, step)
         /\ r.ok \in BOOLEAN /\ (r.ok <=> w.disk[step.url] = {} /\ step.trash # {})
         /\ Same(r.w.page, w.page) /\ Same(r.w.signal, w.signal)
         /\ ~r.ok => Same(r.w, w)
         /\ r.ok => Same(r.w.disk, [w.disk EXCEPT ![step.url] = step.trash])
<1>1. step.url \in Urls /\ step.trash \in Maybe(Texts)
  BY StepIs
<1>2. CASE ~(w.disk[step.url] = {} /\ step.trash # {})
  BY <1>2 DEF Restore, Fails, Same
<1>3. CASE w.disk[step.url] = {} /\ step.trash # {}
  <2>1. PICK w2 : w2 = [w EXCEPT !.disk[step.url] = step.trash]
    OBVIOUS
  <2>2. r = [ok |-> TRUE, w |-> w2, step |-> step]
    BY <1>3, <2>1 DEF Restore, Works
  <2>4. /\ w2.page = w.page /\ w2.disk = [w.disk EXCEPT ![step.url] = step.trash]
        /\ w2.signal = w.signal
        /\ w2 = [disk |-> w2.disk, page |-> w2.page, signal |-> w2.signal]
    BY <2>1 DEF Worlds
  <2>5. w2 \in Worlds
    <3>1. w2.disk \in [Urls -> Maybe(Texts)]
      BY <1>1, <2>4 DEF Worlds
    <3>2. w2.page \in [Urls -> Maybe(Editors)] /\ w2.signal \subseteq Urls
      BY <2>4 DEF Worlds
    <3> QED BY <2>4, <3>1, <3>2, InWorlds
  <2>6. r.ok = TRUE /\ r.w = w2 /\ r.step = step
    BY <2>2
  <2> QED BY <1>3, <2>4, <2>5, <2>6 DEF Same
<1> QED BY <1>2, <1>3

LEMMA RenameIs ==
  ASSUME NEW w \in Worlds, NEW from \in Urls, NEW to \in Urls, NEW step \in Steps,
         NEW r, r = Rename(w, from, to, step)
  PROVE  /\ r.w \in Worlds /\ Same(r.step, step)
         /\ r.ok \in BOOLEAN /\ (r.ok <=> w.disk[from] # {} /\ w.disk[to] = {})
         /\ Same(r.w.page, w.page)
         /\ ~r.ok => Same(r.w, w)
         /\ r.ok => /\ Same(r.w.disk, [w.disk EXCEPT ![from] = {}, ![to] = w.disk[from]])
                    /\ Same(r.w.signal, Reported(w, from))
<1>1. w.disk[from] \in Maybe(Texts)
  BY DiskIs
<1>2. CASE ~(w.disk[from] # {} /\ w.disk[to] = {})
  BY <1>2 DEF Rename, Fails, Same
<1>3. CASE w.disk[from] # {} /\ w.disk[to] = {}
  <2>1. PICK w2 : w2 = [w EXCEPT !.disk[from] = {}, !.disk[to] = w.disk[from], !.signal = Reported(w, from)]
    OBVIOUS
  <2>2. r = [ok |-> TRUE, w |-> w2, step |-> step]
    BY <1>3, <2>1 DEF Rename, Works
  <2>4. /\ w2.page = w.page /\ w2.disk = [w.disk EXCEPT ![from] = {}, ![to] = w.disk[from]]
        /\ w2.signal = Reported(w, from)
        /\ w2 = [disk |-> w2.disk, page |-> w2.page, signal |-> w2.signal]
    BY <2>1 DEF Worlds
  <2>5. w2 \in Worlds
    <3>1. w2.disk \in [Urls -> Maybe(Texts)]
      BY <1>1, <2>4 DEF Worlds, Maybe
    <3>2. w2.page \in [Urls -> Maybe(Editors)] /\ w2.signal \subseteq Urls
      BY <2>4 DEF Worlds, Reported
    <3> QED BY <2>4, <3>1, <3>2, InWorlds
  <2>6. r.ok = TRUE /\ r.w = w2 /\ r.step = step
    BY <2>2
  <2> QED BY <1>3, <2>4, <2>5, <2>6 DEF Same
<1> QED BY <1>2, <1>3

(* Create puts an empty file or what was in the trash, and opens it. *)
LEMMA CreateIs ==
  ASSUME NEW w \in Worlds, NEW step \in Steps, step.kind # "edit", NEW r, r = Create(w, step)
  PROVE  /\ r.w \in Worlds /\ Same(r.step, step)
         /\ r.ok \in BOOLEAN /\ (r.ok <=> w.disk[step.url] = {} \/ step.trash = {})
         /\ ~r.ok => Same(r.w, w)
         /\ r.ok => /\ Same(r.w.signal, w.signal)
                    /\ Same(r.w.disk, [w.disk EXCEPT ![step.url] = IF step.trash = {} THEN {{}} ELSE step.trash])
                    /\ \A u \in Urls :
                         /\ w.page[u] # {} \/ u # step.url => Same(r.w.page[u], w.page[u])
                         /\ w.page[u] = {} /\ u = step.url =>
                              Same(r.w.page[u], {[text |-> The(r.w.disk[u]), modified |-> FALSE]})
<1>1. step.url \in Urls /\ step.trash \in Maybe(Texts)
  BY StepIs
<1>2. CASE ~(w.disk[step.url] = {} \/ step.trash = {})
  <2>1. Restore(w, step) = [ok |-> FALSE, w |-> w, step |-> step]
    BY <1>2 DEF Restore, Fails
  <2>2. r = [ok |-> FALSE, w |-> w, step |-> step]
    <3>1. PICK made : made = Restore(w, step)
      OBVIOUS
    <3>2. made.ok = FALSE
      BY <2>1, <3>1
    <3>3. r = made
      BY <1>2, <3>1, <3>2 DEF Create
    <3> QED BY <2>1, <3>1, <3>3
  <2> QED BY <1>2, <2>2 DEF Same
<1>3. CASE w.disk[step.url] = {} \/ step.trash = {}
  <2>1. PICK new, made : /\ new = IF step.trash = {} THEN {{}} ELSE step.trash
                         /\ made = [w EXCEPT !.disk[step.url] = new]
    OBVIOUS
  <2>2. new \in Maybe(Texts) /\ new # {}
    BY <1>1, <2>1, EmptyText
  <2>3. /\ made.disk = [w.disk EXCEPT ![step.url] = new] /\ made.page = w.page
        /\ made.signal = w.signal
        /\ made = [disk |-> made.disk, page |-> made.page, signal |-> made.signal]
        /\ w.disk \in [Urls -> Maybe(Texts)]
    BY <2>1 DEF Worlds
  <2>4. made \in Worlds
    <3>1. made.disk \in [Urls -> Maybe(Texts)]
      BY <1>1, <2>2, <2>3
    <3>2. made.page \in [Urls -> Maybe(Editors)] /\ made.signal \subseteq Urls
      BY <2>3 DEF Worlds
    <3> QED BY <2>3, <3>1, <3>2, InWorlds
  <2>5. made.disk[step.url] # {}
    BY <1>1, <2>2, <2>3
  <2>6. r = [ok |-> TRUE, w |-> Opened(made, {step.url}), step |-> step]
    <3>1. CASE step.trash = {}
      BY <1>3, <2>1, <3>1 DEF Create, Works
    <3>2. CASE step.trash # {}
      <4>1. Restore(w, step) = [ok |-> TRUE, w |-> made, step |-> step]
        BY <1>3, <2>1, <3>2 DEF Restore, Works
      <4>2. PICK m : m = Restore(w, step)
        OBVIOUS
      <4>3. m.ok = TRUE /\ m.w = made
        BY <4>1, <4>2
      <4> QED BY <3>2, <4>2, <4>3 DEF Create, Works
    <3> QED BY <3>1, <3>2
  <2>7. PICK o : o = Opened(made, {step.url})
    OBVIOUS
  <2>8. /\ o \in Worlds /\ o.disk = made.disk /\ o.signal = made.signal
        /\ \A u \in Urls :
             /\ made.page[u] # {} \/ u \notin {step.url} => o.page[u] = made.page[u]
             /\ made.page[u] = {} /\ u \in {step.url} /\ made.disk[u] # {} =>
                  o.page[u] = {[text |-> The(made.disk[u]), modified |-> FALSE]}
    BY <2>4, <2>7, OpenedIs DEF Same
  <2>9. r.ok = TRUE /\ r.w = o /\ r.step = step
    BY <2>6, <2>7
  <2>10. ASSUME NEW u \in Urls
         PROVE  /\ w.page[u] # {} \/ u # step.url => o.page[u] = w.page[u]
                /\ w.page[u] = {} /\ u = step.url =>
                     o.page[u] = {[text |-> The(o.disk[u]), modified |-> FALSE]}
    BY <2>3, <2>5, <2>8
  <2>11. o.signal = w.signal /\ o.disk = [w.disk EXCEPT ![step.url] = new]
    BY <2>3, <2>8
  <2> QED BY <1>3, <2>1, <2>8, <2>9, <2>10, <2>11 DEF Same
<1> QED BY <1>2, <1>3

LEMMA SetTextsIs ==
  ASSUME NEW w \in Worlds, NEW docs \in Docs, NEW to \in {"before", "after"}, NEW modified,
         \A u \in DOMAIN docs : modified[u] \in BOOLEAN,
         NEW w2, w2 = SetTexts(w, docs, to, modified)
  PROVE  /\ w2 \in Worlds /\ Same(w2.disk, w.disk) /\ Same(w2.signal, w.signal)
         /\ \A u \in Urls :
              /\ u \in DOMAIN docs => Same(w2.page[u], {[text |-> docs[u][to], modified |-> modified[u]]})
              /\ u \notin DOMAIN docs => Same(w2.page[u], w.page[u])
<1> DEFINE New(u) == IF u \in DOMAIN docs THEN {[text |-> docs[u][to], modified |-> modified[u]]}
                     ELSE w.page[u]
           pages == [u \in Urls |-> New(u)]
<1>1. ASSUME NEW u \in Urls PROVE New(u) \in Maybe(Editors)
  <2>1. w.page[u] \in Maybe(Editors)
    BY DEF Worlds
  <2>2. ASSUME u \in DOMAIN docs PROVE [text |-> docs[u][to], modified |-> modified[u]] \in Editors
    <3>1. docs[u].before \in Texts /\ docs[u].after \in Texts /\ modified[u] \in BOOLEAN
      BY <2>2, DocsAre
    <3>2. CASE to = "before"
      BY <3>1, <3>2 DEF Editors
    <3>3. CASE to = "after"
      BY <3>1, <3>3 DEF Editors
    <3> QED BY <3>2, <3>3
  <2> QED BY <2>1, <2>2, OneIn
<1>2. pages \in [Urls -> Maybe(Editors)] /\ \A u \in Urls : pages[u] = New(u)
  BY <1>1
<1>3. /\ w2 = [w EXCEPT !.page = pages]
      /\ w = [disk |-> w.disk, page |-> w.page, signal |-> w.signal]
      /\ w.disk \in [Urls -> Maybe(Texts)] /\ w.signal \subseteq Urls
  BY DEF SetTexts, Worlds
<1> HIDE DEF pages
<1>4. w2 = [disk |-> w.disk, page |-> pages, signal |-> w.signal]
  BY <1>3
<1>5. w2 \in Worlds
  BY <1>2, <1>3, <1>4, WorldIs
<1>6. w2.disk = w.disk /\ w2.signal = w.signal /\ \A u \in Urls : w2.page[u] = New(u)
  <2> HIDE DEF New
  <2> QED BY <1>2, <1>4
<1>7. ASSUME NEW u \in Urls
      PROVE  /\ u \in DOMAIN docs => New(u) = {[text |-> docs[u][to], modified |-> modified[u]]}
             /\ u \notin DOMAIN docs => New(u) = w.page[u]
  OBVIOUS
<1>8. w2.disk = w.disk /\ w2.signal = w.signal
  BY <1>6
<1> HIDE DEF New
<1> QED BY <1>5, <1>6, <1>7, <1>8 DEF Same

(* The text an edit step starts from and the one it reaches. *)
From(d, redo) == IF redo THEN d.before ELSE d.after
To(d, redo) == IF redo THEN d.after ELSE d.before

(* What a step that was done makes of page q of a document: page p. *)
Moves(q, p, d, redo) ==
  /\ p # {} /\ The(p).text = To(d, redo)
  /\ \/ p = q
     \/ /\ The(q).text = From(d, redo)
        /\ p = {[text |-> To(d, redo), modified |-> IF redo THEN TRUE ELSE d.dirty]}

LEMMA EditIs ==
  ASSUME NEW w \in Worlds, NEW step \in Steps, step.kind = "edit", NEW redo \in BOOLEAN,
         NEW r, r = Do(w, step, redo), NEW docs, docs = step.docs, NEW o, o = Opened(w, DOMAIN docs)
  PROVE  /\ docs \in Docs /\ r.w \in Worlds /\ Same(r.step, step) /\ r.ok \in BOOLEAN
         /\ Same(r.w.disk, w.disk) /\ Same(r.w.signal, w.signal)
         /\ ~r.ok => Same(r.w, o)
         /\ \A u \in Urls \ DOMAIN docs : Same(r.w.page[u], o.page[u])
         /\ r.ok => \A u \in DOMAIN docs : Moves(o.page[u], r.w.page[u], docs[u], redo)
<1>1. docs \in Docs /\ DOMAIN docs \subseteq Urls
  BY StepIs, DocsAre
<1>2. /\ o \in Worlds /\ o.disk = w.disk /\ o.signal = w.signal
      /\ \A u \in DOMAIN docs : o.page[u] # {}
  BY <1>1, OpenedIs DEF Same
<1>3. PICK from, to, modified :
        /\ from = IF redo THEN "before" ELSE "after"
        /\ to = IF redo THEN "after" ELSE "before"
        /\ modified = IF redo THEN [u \in Urls |-> TRUE] ELSE [u \in DOMAIN docs |-> docs[u].dirty]
  OBVIOUS
<1>4. /\ \A u \in DOMAIN docs : modified[u] = IF redo THEN TRUE ELSE docs[u].dirty
      /\ \A u \in DOMAIN docs : docs[u][to] = To(docs[u], redo) /\ docs[u][from] = From(docs[u], redo)
      /\ to \in {"before", "after"}
  BY <1>1, <1>3 DEF From, To
<1>5. r = IF At(o, docs, to) THEN Works(o, step)
          ELSE IF At(o, docs, from) THEN Works(SetTexts(o, docs, to, modified), step)
          ELSE Fails(o, step)
  <2>1. CASE redo
    <3>1. r = Redo(w, step)
      BY <2>1 DEF Do
    <3> QED BY <1>3, <2>1, <3>1 DEF Redo
  <2>2. CASE ~redo
    <3>1. r = Undo(w, step)
      BY <2>2 DEF Do
    <3> QED BY <1>3, <2>2, <3>1 DEF Undo
  <2> QED BY <2>1, <2>2
<1>6. CASE At(o, docs, to)
  <2>1. r.ok = TRUE /\ r.w = o /\ r.step = step
    BY <1>5, <1>6 DEF Works
  <2>2. \A u \in DOMAIN docs : Moves(o.page[u], o.page[u], docs[u], redo)
    BY <1>2, <1>4, <1>6 DEF At, Moves
  <2> QED BY <1>1, <1>2, <2>1, <2>2 DEF Same
<1>7. CASE ~At(o, docs, to) /\ ~At(o, docs, from)
  <2>1. r.ok = FALSE /\ r.w = o /\ r.step = step
    BY <1>5, <1>7 DEF Fails
  <2> QED BY <1>1, <1>2, <2>1 DEF Same
<1>8. CASE ~At(o, docs, to) /\ At(o, docs, from)
  <2>1. PICK s : s = SetTexts(o, docs, to, modified)
    OBVIOUS
  <2>2. r.ok = TRUE /\ r.w = s /\ r.step = step
    BY <1>5, <1>8, <2>1 DEF Works
  <2>3. \A u \in DOMAIN docs : modified[u] \in BOOLEAN
    BY <1>1, <1>4, DocsAre
  <2>4. /\ s \in Worlds /\ s.disk = o.disk /\ s.signal = o.signal
        /\ \A u \in Urls :
             /\ u \in DOMAIN docs => s.page[u] = {[text |-> docs[u][to], modified |-> modified[u]]}
             /\ u \notin DOMAIN docs => s.page[u] = o.page[u]
    BY <1>1, <1>2, <1>4, <2>1, <2>3, SetTextsIs DEF Same
  <2>5. ASSUME NEW u \in DOMAIN docs
        PROVE  Moves(o.page[u], s.page[u], docs[u], redo)
    <3>1. PICK e : e = [text |-> To(docs[u], redo), modified |-> IF redo THEN TRUE ELSE docs[u].dirty]
      OBVIOUS
    <3>2. s.page[u] = {e}
      BY <1>1, <1>4, <2>4, <3>1
    <3>3. The(s.page[u]) = e
      BY <3>2, TheOne
    <3>4. The(o.page[u]).text = From(docs[u], redo)
      BY <1>4, <1>8 DEF At
    <3>5. s.page[u] # {} /\ The(s.page[u]).text = To(docs[u], redo)
      BY <3>1, <3>2, <3>3
    <3>6. s.page[u] = {[text |-> To(docs[u], redo), modified |-> IF redo THEN TRUE ELSE docs[u].dirty]}
      BY <3>1, <3>2
    <3> QED BY ONLY <3>4, <3>5, <3>6 DEF Moves
  <2> QED BY <1>1, <1>2, <2>2, <2>4, <2>5 DEF Same
<1> QED BY <1>6, <1>7, <1>8

(* A step of any kind. *)
LEMMA DoIs ==
  ASSUME NEW w \in Worlds, NEW step \in Steps, NEW redo \in BOOLEAN, NEW r, r = Do(w, step, redo)
  PROVE  /\ r.ok \in BOOLEAN /\ r.w \in Worlds /\ r.step \in Steps
         /\ r.step.kind = step.kind
         /\ step.kind = "edit" => r.step = step
         /\ step.kind # "edit" => r.step.url = step.url /\ r.step.to = step.to
<1>1. CASE step.kind = "edit"
  <2>1. PICK docs, o : docs = step.docs /\ o = Opened(w, DOMAIN docs)
    OBVIOUS
  <2>2. Same(r.step, step) /\ r.ok \in BOOLEAN /\ r.w \in Worlds
    BY <1>1, <2>1, EditIs
  <2> QED BY <1>1, <2>2 DEF Same
<1>2. CASE step.kind = "create"
  <2>1. step.kind # "edit" /\ (r = Create(w, step) \/ r = Trash(w, step))
    BY <1>2 DEF Do
  <2>2. CASE r = Create(w, step)
    <3>1. Same(r.step, step) /\ r.ok \in BOOLEAN /\ r.w \in Worlds
      BY <2>1, <2>2, CreateIs
    <3> QED BY <2>1, <3>1 DEF Same
  <2>3. CASE r = Trash(w, step)
    <3>1. r.ok \in BOOLEAN /\ r.w \in Worlds /\ r.step \in Steps
      BY <2>1, <2>3, TrashIs
    <3>2. SameFile(r.step, step)
      BY <2>1, <2>3, TrashIs
    <3> QED BY <2>1, <3>1, <3>2 DEF SameFile
  <2> QED BY <2>1, <2>2, <2>3
<1>3. CASE step.kind = "delete"
  <2>1. step.kind # "edit" /\ (r = Restore(w, step) \/ r = Trash(w, step))
    BY <1>3 DEF Do
  <2>2. CASE r = Restore(w, step)
    <3>1. Same(r.step, step) /\ r.ok \in BOOLEAN /\ r.w \in Worlds
      BY <2>1, <2>2, RestoreIs
    <3> QED BY <2>1, <3>1 DEF Same
  <2>3. CASE r = Trash(w, step)
    <3>1. r.ok \in BOOLEAN /\ r.w \in Worlds /\ r.step \in Steps
      BY <2>1, <2>3, TrashIs
    <3>2. SameFile(r.step, step)
      BY <2>1, <2>3, TrashIs
    <3> QED BY <2>1, <3>1, <3>2 DEF SameFile
  <2> QED BY <2>1, <2>2, <2>3
<1>4. CASE step.kind = "rename"
  <2>1. step.kind # "edit" /\ (r = Rename(w, step.url, step.to, step) \/ r = Rename(w, step.to, step.url, step))
    BY <1>4 DEF Do
  <2>2. step.url \in Urls /\ step.to \in Urls
    BY <2>1, StepIs
  <2>3. CASE r = Rename(w, step.url, step.to, step)
    <3>1. Same(r.step, step) /\ r.ok \in BOOLEAN /\ r.w \in Worlds
      BY <2>1, <2>2, <2>3, RenameIs
    <3> QED BY <2>1, <3>1 DEF Same
  <2>4. CASE r = Rename(w, step.to, step.url, step)
    <3>1. Same(r.step, step) /\ r.ok \in BOOLEAN /\ r.w \in Worlds
      BY <2>1, <2>2, <2>4, RenameIs
    <3> QED BY <2>1, <3>1 DEF Same
  <2> QED BY <2>1, <2>3, <2>4
<1>5. step.kind \in {"edit", "create", "rename", "delete"}
  BY StepIs
<1> QED BY <1>1, <1>2, <1>3, <1>4, <1>5

(***************************************************************************)
(* Nothing typed is taken out of an open document.                         *)
(***************************************************************************)

Fine(docs) == \A u \in DOMAIN docs : Typed(docs[u].before) = Typed(docs[u].after)
FineStep(step) == step.kind = "edit" => Fine(step.docs)

Spares(w, w2) == \A u \in Urls : w.page[u] # {} =>
  w2.page[u] # {} /\ Typed(The(w.page[u]).text) \subseteq Typed(The(w2.page[u]).text)

LEMMA SparesMore ==
  ASSUME NEW w, NEW w2, NEW w3, Spares(w, w2), Spares(w2, w3)
  PROVE  Spares(w, w3)
<1> QED BY DEF Spares

LEMMA SparesPages ==
  ASSUME NEW w, NEW w2, \A u \in Urls : w.page[u] # {} => w2.page[u] = w.page[u]
  PROVE  Spares(w, w2)
<1> QED BY DEF Spares

LEMMA DoSpares ==
  ASSUME NEW w \in Worlds, NEW step \in Steps, FineStep(step), NEW redo \in BOOLEAN,
         NEW r, r = Do(w, step, redo)
  PROVE  Spares(w, r.w)
<1>1. CASE step.kind = "edit"
  <2>1. PICK docs, o : docs = step.docs /\ o = Opened(w, DOMAIN docs)
    OBVIOUS
  <2>2. docs \in Docs /\ DOMAIN docs \subseteq Urls /\ Fine(docs)
    BY <1>1, <2>1, StepIs, DocsAre DEF FineStep
  <2>3. \A u \in Urls : w.page[u] # {} => o.page[u] = w.page[u]
    <3>1. \A u \in Urls : w.page[u] # {} => Same(o.page[u], w.page[u])
      BY <2>1, OpenedIs
    <3> QED BY <3>1 DEF Same
  <2>4. /\ r.ok \in BOOLEAN /\ (~r.ok => r.w = o)
        /\ \A u \in Urls \ DOMAIN docs : r.w.page[u] = o.page[u]
        /\ r.ok => \A u \in DOMAIN docs :
              /\ r.w.page[u] # {} /\ The(r.w.page[u]).text = To(docs[u], redo)
              /\ r.w.page[u] = o.page[u] \/ The(o.page[u]).text = From(docs[u], redo)
    <3>1. r.ok \in BOOLEAN /\ (~r.ok => Same(r.w, o))
      BY <1>1, <2>1, EditIs
    <3>2. \A u \in Urls \ DOMAIN docs : Same(r.w.page[u], o.page[u])
      BY <1>1, <2>1, EditIs
    <3>3. r.ok => \A u \in DOMAIN docs : Moves(o.page[u], r.w.page[u], docs[u], redo)
      BY <1>1, <2>1, EditIs
    <3>4. r.ok \in BOOLEAN /\ (~r.ok => r.w = o)
      BY ONLY <3>1 DEF Same
    <3>5. \A u \in Urls \ DOMAIN docs : r.w.page[u] = o.page[u]
      BY ONLY <3>2 DEF Same
    <3>6. r.ok => \A u \in DOMAIN docs :
            /\ r.w.page[u] # {} /\ The(r.w.page[u]).text = To(docs[u], redo)
            /\ r.w.page[u] = o.page[u] \/ The(o.page[u]).text = From(docs[u], redo)
      BY ONLY <3>3 DEF Moves
    <3> QED BY ONLY <3>4, <3>5, <3>6
  <2>5. \A u \in DOMAIN docs : Typed(From(docs[u], redo)) = Typed(To(docs[u], redo))
    BY <2>2 DEF Fine, From, To
  <2>6. CASE ~r.ok
    <3>1. \A u \in Urls : w.page[u] # {} => r.w.page[u] = w.page[u]
      BY <2>3, <2>4, <2>6
    <3> QED BY <3>1, SparesPages
  <2>7. CASE r.ok
    <3> SUFFICES ASSUME NEW u \in Urls, w.page[u] # {}
                 PROVE  /\ r.w.page[u] # {}
                        /\ Typed(The(w.page[u]).text) \subseteq Typed(The(r.w.page[u]).text)
      BY DEF Spares
    <3>1. CASE r.w.page[u] = o.page[u]
      BY <2>3, <3>1
    <3>2. CASE u \in DOMAIN docs /\ The(o.page[u]).text = From(docs[u], redo)
      <4>1. The(w.page[u]).text = From(docs[u], redo)
        BY <2>3, <3>2
      <4>2. r.w.page[u] # {} /\ The(r.w.page[u]).text = To(docs[u], redo)
        BY <2>4, <2>7, <3>2
      <4> QED BY <2>5, <3>2, <4>1, <4>2
    <3> QED BY <2>4, <2>7, <3>1, <3>2
  <2> QED BY <2>4, <2>6, <2>7
<1>2. CASE step.kind = "create"
  <2>1. CASE r = Create(w, step)
    <3>1. step.kind # "edit"
      BY <1>2
    <3>2. r.ok \in BOOLEAN /\ (~r.ok => Same(r.w, w))
          /\ (r.ok => \A u \in Urls : w.page[u] # {} => Same(r.w.page[u], w.page[u]))
      BY <2>1, <3>1, CreateIs
    <3>3. \A u \in Urls : w.page[u] # {} => r.w.page[u] = w.page[u]
      BY <3>2 DEF Same
    <3> QED BY <3>3, SparesPages
  <2>2. CASE r = Trash(w, step)
    <3>1. step.kind # "edit"
      BY <1>2
    <3>2. Same(r.w.page, w.page)
      BY <2>2, <3>1, TrashIs
    <3> QED BY <3>2, SparesPages DEF Same
  <2> QED BY <1>2, <2>1, <2>2 DEF Do
<1>3. CASE step.kind = "delete"
  <2>1. step.kind # "edit" /\ (r = Restore(w, step) \/ r = Trash(w, step))
    BY <1>3 DEF Do
  <2>2. CASE r = Restore(w, step)
    <3>1. Same(r.w.page, w.page)
      BY <2>1, <2>2, RestoreIs
    <3> QED BY <3>1, SparesPages DEF Same
  <2>3. CASE r = Trash(w, step)
    <3>1. Same(r.w.page, w.page)
      BY <2>1, <2>3, TrashIs
    <3> QED BY <3>1, SparesPages DEF Same
  <2> QED BY <2>1, <2>2, <2>3
<1>4. CASE step.kind = "rename"
  <2>1. PICK from \in Urls, to \in Urls : r = Rename(w, from, to, step)
    <3>1. r = Rename(w, step.url, step.to, step) \/ r = Rename(w, step.to, step.url, step)
      BY <1>4 DEF Do
    <3>2. step.url \in Urls /\ step.to \in Urls
      BY <1>4, StepIs
    <3> QED BY <3>1, <3>2
  <2>2. Same(r.w.page, w.page)
    BY <2>1, RenameIs
  <2> QED BY <2>2, SparesPages DEF Same
<1>5. step.kind \in {"edit", "create", "rename", "delete"}
  BY StepIs
<1> QED BY <1>1, <1>2, <1>3, <1>4, <1>5

(***************************************************************************)
(* The steps of a run, one after the other.                                *)
(***************************************************************************)

LEMMA SetInduction ==
  ASSUME NEW S, 0 \in S, \A n \in Nat : n \in S => n + 1 \in S
  PROVE  \A n \in Nat : n \in S
<1> DEFINE T == Nat \ S
<1> SUFFICES ASSUME T # {} PROVE FALSE
  OBVIOUS
<1>1. T \subseteq Nat
  OBVIOUS
<1>2. PICK x \in T : \A y \in T : ~(<<y, x>> \in OpToRel(<, Nat))
  <2> HIDE DEF T
  <2> QED BY <1>1, NatLessThanWellFounded, WFMin
<1>3. x \in Nat /\ x # 0 /\ x - 1 \in Nat /\ x - 1 < x
  OBVIOUS
<1>4. <<x - 1, x>> \in OpToRel(<, Nat)
  BY <1>3 DEF OpToRel
<1>5. x - 1 \in T
  BY <1>3
<1> QED BY <1>2, <1>4, <1>5

(* The runs after each step that is tried, and after each that is gone     *)
(* back.                                                                   *)
IsTry(f, w, steps, redo, n) ==
  f = [k \in 0 .. n |-> IF k = 0 THEN Begun(w, steps)
                        ELSE Tried(f[k - 1], Turn(steps, redo, k), redo)]
IsBack(f, run, steps, redo, n) ==
  f = [k \in 0 .. n |-> IF k = 0 THEN run
                        ELSE GoneBack(f[k - 1], Turn(steps, redo, run.done + 1 - k), redo)]

LEMMA TryExists ==
  ASSUME NEW w, NEW steps, NEW redo
  PROVE  \A n \in Nat : \E f : IsTry(f, w, steps, redo, n)
<1> DEFINE Exists(n) == \E f : IsTry(f, w, steps, redo, n)
           After(n, x) == Tried(x, Turn(steps, redo, n), redo)
<1>1. Exists(0)
  <2> DEFINE f == [k \in 0 .. 0 |-> Begun(w, steps)]
  <2>1. IsTry(f, w, steps, redo, 0)
    BY DEF IsTry
  <2> QED BY <2>1
<1>2. ASSUME NEW n \in Nat, Exists(n) PROVE Exists(n + 1)
  <2>1. PICK f : IsTry(f, w, steps, redo, n)
    BY <1>2
  <2> DEFINE g == [k \in 0 .. n + 1 |-> IF k <= n THEN f[k] ELSE After(n + 1, f[n])]
  <2>2. \A k \in 0 .. n : f[k] = IF k = 0 THEN Begun(w, steps) ELSE After(k, f[k - 1])
    BY <2>1 DEF IsTry
  <2>3. ASSUME NEW k \in 0 .. n + 1
        PROVE  g[k] = IF k = 0 THEN Begun(w, steps) ELSE After(k, g[k - 1])
    <3> HIDE DEF After
    <3>1. CASE k = 0
      BY <2>2, <3>1
    <3>2. CASE k \in 1 .. n
      <4>1. g[k] = f[k] /\ g[k - 1] = f[k - 1]
        BY <3>2
      <4> QED BY <2>2, <3>2, <4>1
    <3>3. CASE k = n + 1
      <4>1. g[k] = After(n + 1, f[n]) /\ g[k - 1] = f[n]
        BY <3>3
      <4> QED BY <3>3, <4>1
    <3> QED BY <3>1, <3>2, <3>3
  <2>4. IsTry(g, w, steps, redo, n + 1)
    <3>1. g = [k \in 0 .. n + 1 |-> g[k]]
      OBVIOUS
    <3> HIDE DEF g
    <3> QED BY <2>3, <3>1 DEF IsTry
  <2> QED BY <2>4
<1>3. \A n \in Nat : Exists(n)
  <2> DEFINE S == {n \in Nat : Exists(n)}
  <2> HIDE DEF Exists
  <2>1. 0 \in S /\ \A n \in Nat : n \in S => n + 1 \in S
    BY <1>1, <1>2
  <2>2. \A n \in Nat : n \in S
    <3> HIDE DEF S
    <3> QED BY <2>1, SetInduction
  <2> QED BY <2>2
<1> QED BY <1>3

LEMMA BackExists ==
  ASSUME NEW run, NEW steps, NEW redo
  PROVE  \A n \in Nat : \E f : IsBack(f, run, steps, redo, n)
<1> DEFINE Exists(n) == \E f : IsBack(f, run, steps, redo, n)
           After(n, x) == GoneBack(x, Turn(steps, redo, run.done + 1 - n), redo)
<1>1. Exists(0)
  <2> DEFINE f == [k \in 0 .. 0 |-> run]
  <2>1. IsBack(f, run, steps, redo, 0)
    BY DEF IsBack
  <2> QED BY <2>1
<1>2. ASSUME NEW n \in Nat, Exists(n) PROVE Exists(n + 1)
  <2>1. PICK f : IsBack(f, run, steps, redo, n)
    BY <1>2
  <2> DEFINE g == [k \in 0 .. n + 1 |-> IF k <= n THEN f[k] ELSE After(n + 1, f[n])]
  <2>2. \A k \in 0 .. n : f[k] = IF k = 0 THEN run ELSE After(k, f[k - 1])
    BY <2>1 DEF IsBack
  <2>3. ASSUME NEW k \in 0 .. n + 1
        PROVE  g[k] = IF k = 0 THEN run ELSE After(k, g[k - 1])
    <3> HIDE DEF After
    <3>1. CASE k = 0
      BY <2>2, <3>1
    <3>2. CASE k \in 1 .. n
      <4>1. g[k] = f[k] /\ g[k - 1] = f[k - 1]
        BY <3>2
      <4> QED BY <2>2, <3>2, <4>1
    <3>3. CASE k = n + 1
      <4>1. g[k] = After(n + 1, f[n]) /\ g[k - 1] = f[n]
        BY <3>3
      <4> QED BY <3>3, <4>1
    <3> QED BY <3>1, <3>2, <3>3
  <2>4. IsBack(g, run, steps, redo, n + 1)
    <3>1. g = [k \in 0 .. n + 1 |-> g[k]]
      OBVIOUS
    <3> HIDE DEF g
    <3> QED BY <2>3, <3>1 DEF IsBack
  <2> QED BY <2>4
<1>3. \A n \in Nat : Exists(n)
  <2> DEFINE S == {n \in Nat : Exists(n)}
  <2> HIDE DEF Exists
  <2>1. 0 \in S /\ \A n \in Nat : n \in S => n + 1 \in S
    BY <1>1, <1>2
  <2>2. \A n \in Nat : n \in S
    <3> HIDE DEF S
    <3> QED BY <2>1, SetInduction
  <2> QED BY <2>2
<1> QED BY <1>3

(* What holds at the beginning of a run, with k steps done, and while m    *)
(* steps are left to go back.                                              *)
LEMMA RanIs ==
  ASSUME NEW w, NEW steps, Len(steps) \in Nat, NEW redo, NEW J, NEW B,
         Begun(w, steps) \in J[0],
         \A k \in 1 .. Len(steps) : \A run \in J[k - 1] :
           Tried(run, Turn(steps, redo, k), redo) \in J[k],
         \A run \in J[Len(steps)] : run.done \in 0 .. Len(steps) /\ (~run.ok => run \in B[run.done]),
         \A m \in 1 .. Len(steps) : \A run \in B[m] :
           GoneBack(run, Turn(steps, redo, m), redo) \in B[m - 1]
  PROVE  \/ Ran(w, steps, redo) \in B[0]
         \/ Ran(w, steps, redo) \in J[Len(steps)] /\ Ran(w, steps, redo).ok
<1>1. PICK n : n = Len(steps)
  OBVIOUS
<1>2. PICK try : try = CHOOSE f : IsTry(f, w, steps, redo, n)
  OBVIOUS
<1>3. IsTry(try, w, steps, redo, n)
  BY <1>1, <1>2, TryExists
<1>4. try[0] = Begun(w, steps) /\ \A k \in 1 .. n : try[k] = Tried(try[k - 1], Turn(steps, redo, k), redo)
  BY <1>1, <1>3 DEF IsTry
<1>5. try[n] \in J[n]
  <2> DEFINE T == {k \in Nat : k <= n => try[k] \in J[k]}
  <2>1. 0 \in T
    BY <1>4
  <2>2. ASSUME NEW k \in Nat, k \in T PROVE k + 1 \in T
    <3>1. CASE k + 1 <= n
      <4>1. k + 1 \in 1 .. n /\ k + 1 - 1 = k /\ try[k] \in J[k]
        BY <1>1, <2>2, <3>1
      <4>2. Tried(try[k], Turn(steps, redo, k + 1), redo) \in J[k + 1]
        BY <1>1, <4>1
      <4> QED BY <1>4, <4>1, <4>2
    <3> QED BY <3>1, <1>1
  <2>3. \A k \in Nat : k \in T
    <3> HIDE DEF T
    <3> QED BY <2>1, <2>2, SetInduction
  <2> QED BY <1>1, <2>3
<1>6. PICK run : run = try[n]
  OBVIOUS
<1>7. run \in J[n] /\ run.done \in 0 .. n /\ (~run.ok => run \in B[run.done])
  BY <1>1, <1>5, <1>6
<1>8. PICK back : back = CHOOSE f : IsBack(f, run, steps, redo, run.done)
  OBVIOUS
<1>9. IsBack(back, run, steps, redo, run.done)
  BY <1>7, <1>8, BackExists
<1>10. Ran(w, steps, redo) = IF run.ok THEN run ELSE back[run.done]
  BY <1>1, <1>2, <1>6, <1>8 DEF Ran, IsTry, IsBack
<1>11. CASE run.ok
  BY <1>1, <1>7, <1>10, <1>11
<1>12. CASE ~run.ok
  <2>1. PICK d : d = run.done
    OBVIOUS
  <2>2. /\ back[0] = run
        /\ \A k \in 1 .. d : back[k] = GoneBack(back[k - 1], Turn(steps, redo, d + 1 - k), redo)
        /\ d \in 0 .. n /\ n \in Nat /\ run \in B[d]
    BY <1>1, <1>7, <1>9, <1>12, <2>1 DEF IsBack
  <2> DEFINE T == {k \in Nat : k <= d => back[k] \in B[d - k]}
  <2>3. 0 \in T
    BY <2>2
  <2>4. ASSUME NEW k \in Nat, k \in T PROVE k + 1 \in T
    <3>1. CASE k + 1 <= d
      <4>1. PICK m : m = d - k
        OBVIOUS
      <4>2. /\ m \in 1 .. n /\ k + 1 \in 1 .. d /\ m - 1 = d - (k + 1) /\ k + 1 - 1 = k
            /\ d + 1 - (k + 1) = m /\ back[k] \in B[m]
        BY <2>2, <2>4, <3>1, <4>1
      <4>3. GoneBack(back[k], Turn(steps, redo, m), redo) \in B[m - 1]
        BY <1>1, <4>2
      <4>4. back[k + 1] = GoneBack(back[k], Turn(steps, redo, m), redo)
        BY <2>2, <4>2
      <4> QED BY <4>2, <4>3, <4>4
    <3> QED BY <3>1, <2>2
  <2>5. \A k \in Nat : k \in T
    <3> HIDE DEF T
    <3> QED BY <2>3, <2>4, SetInduction
  <2>6. back[d] \in B[0]
    BY <2>2, <2>5
  <2> QED BY <1>10, <1>12, <2>1, <2>6
<1> QED BY <1>11, <1>12

Runs == [ok : BOOLEAN, w : Worlds, steps : Seq(Steps), done : Nat, torn : BOOLEAN]

(* What r, the outcome of step i, makes of a run. *)
TriedTo(run, i, r, new) ==
  /\ new \in Runs /\ Len(new.steps) = Len(run.steps)
  /\ ~run.ok => new = run
  /\ run.ok => /\ new.ok = r.ok /\ new.w = r.w /\ new.steps = [run.steps EXCEPT ![i] = r.step]
               /\ new.torn = run.torn /\ new.done = IF r.ok THEN run.done + 1 ELSE run.done
BackTo(run, i, r, new) ==
  /\ new \in Runs /\ Len(new.steps) = Len(run.steps)
  /\ new.w = r.w /\ new.steps = [run.steps EXCEPT ![i] = r.step]
  /\ new.torn = (run.torn \/ ~r.ok) /\ new.done = run.done /\ new.ok = run.ok

LEMMA TriedIs ==
  ASSUME NEW run \in Runs, NEW i \in 1 .. Len(run.steps), NEW redo \in BOOLEAN,
         NEW r, r = Do(run.w, run.steps[i], redo), NEW new, new = Tried(run, i, redo)
  PROVE  TriedTo(run, i, r, new)
<1>1. CASE ~run.ok
  BY <1>1 DEF Tried, TriedTo
<1>2. CASE run.ok
  <2>1. run.w \in Worlds /\ run.steps \in Seq(Steps) /\ run.steps[i] \in Steps /\ run.done \in Nat
        /\ run.torn \in BOOLEAN /\ run = [ok |-> run.ok, w |-> run.w, steps |-> run.steps,
                                          done |-> run.done, torn |-> run.torn]
    BY DEF Runs
  <2>2. r.ok \in BOOLEAN /\ r.w \in Worlds /\ r.step \in Steps
    BY <2>1, DoIs
  <2>3. PICK steps, done : /\ steps = [run.steps EXCEPT ![i] = r.step]
                           /\ done = IF r.ok THEN run.done + 1 ELSE run.done
    OBVIOUS
  <2>4. steps \in Seq(Steps) /\ Len(steps) = Len(run.steps) /\ done \in Nat
    BY <2>1, <2>2, <2>3
  <2>5. new = [run EXCEPT !.ok = r.ok, !.w = r.w, !.steps[i] = r.step,
                          !.done = IF r.ok THEN @ + 1 ELSE @]
    BY <1>2 DEF Tried
  <2>6. new = [ok |-> r.ok, w |-> r.w, steps |-> steps, done |-> done, torn |-> run.torn]
    BY ONLY <2>1, <2>3, <2>5
  <2>7. new \in Runs
    BY ONLY <2>1, <2>2, <2>4, <2>6 DEF Runs
  <2>8. /\ new.ok = r.ok /\ new.w = r.w /\ new.steps = steps /\ new.torn = run.torn
        /\ new.done = done
    BY ONLY <2>6
  <2> QED BY <1>2, <2>3, <2>4, <2>7, <2>8 DEF TriedTo
<1>3. run.ok \in BOOLEAN
  BY DEF Runs
<1> QED BY <1>1, <1>2

LEMMA GoneBackIs ==
  ASSUME NEW run \in Runs, NEW i \in 1 .. Len(run.steps), NEW redo \in BOOLEAN,
         NEW r, r = Do(run.w, run.steps[i], ~redo), NEW new, new = GoneBack(run, i, redo)
  PROVE  BackTo(run, i, r, new)
<1>1. run.w \in Worlds /\ run.steps \in Seq(Steps) /\ run.steps[i] \in Steps /\ run.done \in Nat
      /\ run.torn \in BOOLEAN /\ run.ok \in BOOLEAN
      /\ run = [ok |-> run.ok, w |-> run.w, steps |-> run.steps, done |-> run.done, torn |-> run.torn]
  BY DEF Runs
<1>2. r.ok \in BOOLEAN /\ r.w \in Worlds /\ r.step \in Steps
  <2>1. PICK back \in BOOLEAN : back = ~redo
    OBVIOUS
  <2> QED BY <1>1, <2>1, DoIs
<1>3. PICK steps, torn : steps = [run.steps EXCEPT ![i] = r.step] /\ torn = (run.torn \/ ~r.ok)
  OBVIOUS
<1>4. steps \in Seq(Steps) /\ Len(steps) = Len(run.steps) /\ torn \in BOOLEAN
  BY <1>1, <1>2, <1>3
<1>5. new = [run EXCEPT !.w = r.w, !.steps[i] = r.step, !.torn = @ \/ ~r.ok]
  BY DEF GoneBack
<1>6. new = [ok |-> run.ok, w |-> r.w, steps |-> steps, done |-> run.done, torn |-> torn]
  BY ONLY <1>1, <1>3, <1>5
<1>7. new \in Runs
  BY ONLY <1>1, <1>2, <1>4, <1>6 DEF Runs
<1>8. /\ new.ok = run.ok /\ new.w = r.w /\ new.steps = steps /\ new.torn = torn /\ new.done = run.done
  BY ONLY <1>6
<1> QED BY <1>3, <1>4, <1>7, <1>8 DEF BackTo

FineSteps(steps) == \A n \in 1 .. Len(steps) : FineStep(steps[n])

LEMMA FineStepKept ==
  ASSUME NEW w \in Worlds, NEW steps \in Seq(Steps), NEW i \in 1 .. Len(steps), NEW redo \in BOOLEAN,
         FineSteps(steps), NEW r, r = Do(w, steps[i], redo)
  PROVE  FineSteps([steps EXCEPT ![i] = r.step])
<1>1. steps[i] \in Steps /\ FineStep(steps[i])
  BY DEF FineSteps
<1>2. /\ r.step.kind = steps[i].kind
      /\ steps[i].kind = "edit" => r.step = steps[i]
  BY <1>1, DoIs
<1>3. FineStep(r.step)
  BY <1>1, <1>2 DEF FineStep
<1>4. PICK new : new = [steps EXCEPT ![i] = r.step]
  OBVIOUS
<1>5. Len(new) = Len(steps) /\ \A n \in 1 .. Len(steps) : new[n] = IF n = i THEN r.step ELSE steps[n]
  BY <1>4
<1> QED BY <1>1, <1>3, <1>4, <1>5 DEF FineSteps

LEMMA TurnIs ==
  ASSUME NEW steps, Len(steps) \in Nat, NEW redo \in BOOLEAN, NEW k \in 1 .. Len(steps)
  PROVE  Turn(steps, redo, k) \in 1 .. Len(steps)
<1> QED BY DEF Turn

(* What every run keeps. *)
Keeps(w, steps, run) ==
  /\ run \in Runs /\ Len(run.steps) = Len(steps)
  /\ FineSteps(steps) => FineSteps(run.steps) /\ Spares(w, run.w)

LEMMA TriedKeeps ==
  ASSUME NEW w \in Worlds, NEW steps \in Seq(Steps), NEW redo \in BOOLEAN,
         NEW run, Keeps(w, steps, run), NEW i \in 1 .. Len(steps)
  PROVE  Keeps(w, steps, Tried(run, i, redo))
<1>1. PICK r, new : r = Do(run.w, run.steps[i], redo) /\ new = Tried(run, i, redo)
  OBVIOUS
<1>2. run \in Runs /\ Len(run.steps) = Len(steps) /\ i \in 1 .. Len(run.steps) /\ run.w \in Worlds
      /\ run.steps \in Seq(Steps) /\ run.steps[i] \in Steps /\ run.ok \in BOOLEAN
  BY DEF Keeps, Runs
<1>5. TriedTo(run, i, r, new)
  BY <1>1, <1>2, TriedIs
<1>3. CASE ~run.ok
  BY <1>1, <1>3, <1>5 DEF TriedTo
<1>4. CASE run.ok
  <2>1. new \in Runs /\ Len(new.steps) = Len(run.steps)
    BY ONLY <1>5 DEF TriedTo
  <2>2. new.w = r.w /\ new.steps = [run.steps EXCEPT ![i] = r.step]
    BY ONLY <1>4, <1>5 DEF TriedTo
  <2>3. ASSUME FineSteps(steps) PROVE FineSteps(new.steps) /\ Spares(w, new.w)
    <3>1. FineSteps(run.steps) /\ Spares(w, run.w)
      BY <2>3 DEF Keeps
    <3>2. FineStep(run.steps[i])
      BY <1>2, <3>1 DEF FineSteps
    <3>3. Spares(run.w, r.w)
      BY <1>1, <1>2, <3>2, DoSpares
    <3>4. Spares(w, r.w)
      BY <3>1, <3>3, SparesMore
    <3>5. FineSteps([run.steps EXCEPT ![i] = r.step])
      BY <1>1, <1>2, <3>1, FineStepKept
    <3> QED BY <2>2, <3>4, <3>5
  <2> QED BY <1>1, <1>2, <2>1, <2>3 DEF Keeps
<1> QED BY <1>2, <1>3, <1>4

LEMMA GoneBackKeeps ==
  ASSUME NEW w \in Worlds, NEW steps \in Seq(Steps), NEW redo \in BOOLEAN,
         NEW run, Keeps(w, steps, run), NEW i \in 1 .. Len(steps)
  PROVE  Keeps(w, steps, GoneBack(run, i, redo)) /\ GoneBack(run, i, redo).done = run.done
<1>1. PICK back \in BOOLEAN : back = ~redo
  OBVIOUS
<1>2. PICK r, new : r = Do(run.w, run.steps[i], back) /\ new = GoneBack(run, i, redo)
  OBVIOUS
<1>3. run \in Runs /\ Len(run.steps) = Len(steps) /\ i \in 1 .. Len(run.steps) /\ run.w \in Worlds
      /\ run.steps \in Seq(Steps) /\ run.steps[i] \in Steps /\ run.ok \in BOOLEAN
  BY DEF Keeps, Runs
<1>4. BackTo(run, i, r, new)
  BY <1>1, <1>2, <1>3, GoneBackIs
<1>5. /\ new \in Runs /\ Len(new.steps) = Len(run.steps) /\ new.done = run.done
      /\ new.w = r.w /\ new.steps = [run.steps EXCEPT ![i] = r.step]
  BY ONLY <1>4 DEF BackTo
<1>6. ASSUME FineSteps(steps) PROVE FineSteps(new.steps) /\ Spares(w, new.w)
  <2>1. FineSteps(run.steps) /\ Spares(w, run.w)
    BY <1>6 DEF Keeps
  <2>2. FineStep(run.steps[i])
    BY <1>3, <2>1 DEF FineSteps
  <2>3. Spares(run.w, r.w)
    BY <1>1, <1>2, <1>3, <2>2, DoSpares
  <2>4. Spares(w, r.w)
    BY <2>1, <2>3, SparesMore
  <2>5. FineSteps([run.steps EXCEPT ![i] = r.step])
    BY <1>1, <1>2, <1>3, <2>1, FineStepKept
  <2> QED BY <1>5, <2>4, <2>5
<1> QED BY <1>2, <1>3, <1>5, <1>6 DEF Keeps

LEMMA BegunIs ==
  ASSUME NEW w \in Worlds, NEW steps \in Seq(Steps)
  PROVE  Begun(w, steps) \in Runs /\ Keeps(w, steps, Begun(w, steps)) /\ Begun(w, steps).done = 0
<1>1. PICK run : run = Begun(w, steps)
  OBVIOUS
<1>2. run = [ok |-> TRUE, w |-> w, steps |-> steps, done |-> 0, torn |-> FALSE]
  BY <1>1 DEF Begun
<1>3. run \in Runs
  BY ONLY <1>2, w \in Worlds, steps \in Seq(Steps) DEF Runs
<1>4. run.w = w /\ run.steps = steps /\ run.done = 0
  BY ONLY <1>2
<1> QED BY <1>1, <1>3, <1>4, SparesPages DEF Keeps

LEMMA RanKeeps ==
  ASSUME NEW w \in Worlds, NEW steps \in Seq(Steps), NEW redo \in BOOLEAN
  PROVE  Keeps(w, steps, Ran(w, steps, redo)) /\ Ran(w, steps, redo).done <= Len(steps)
<1> DEFINE n == Len(steps)
           J == [k \in Nat |-> {run \in Runs : Keeps(w, steps, run) /\ run.done <= k}]
           B == [k \in Nat |-> J[n]]
<1>1. n \in Nat /\ Begun(w, steps) \in J[0]
  BY BegunIs
<1>2. ASSUME NEW k \in 1 .. n, NEW run \in J[k - 1]
      PROVE  Tried(run, Turn(steps, redo, k), redo) \in J[k]
  <2>1. PICK i : i = Turn(steps, redo, k)
    OBVIOUS
  <2>2. i \in 1 .. Len(steps) /\ k - 1 \in Nat /\ k \in Nat
    BY <1>1, <2>1, TurnIs
  <2>3. run \in Runs /\ Keeps(w, steps, run) /\ run.done <= k - 1 /\ run.done \in Nat
    BY <2>2 DEF Runs
  <2>4. PICK new : new = Tried(run, i, redo)
    OBVIOUS
  <2>5. Keeps(w, steps, new)
    BY <2>2, <2>3, <2>4, TriedKeeps
  <2>6. new.done <= k
    <3>1. PICK r : r = Do(run.w, run.steps[i], redo)
      OBVIOUS
    <3>2. i \in 1 .. Len(run.steps) /\ run.ok \in BOOLEAN
      BY <2>2, <2>3 DEF Keeps, Runs
    <3>3. TriedTo(run, i, r, new)
      BY <2>3, <2>4, <3>1, <3>2, TriedIs
    <3>5. CASE run.ok
      BY <2>2, <2>3, <3>3, <3>5 DEF TriedTo
    <3>6. CASE ~run.ok
      BY <2>2, <2>3, <3>3, <3>6 DEF TriedTo
    <3> QED BY <3>2, <3>5, <3>6
  <2>7. new \in Runs
    BY <2>5 DEF Keeps
  <2> QED BY <2>1, <2>2, <2>4, <2>5, <2>6, <2>7
<1>3. ASSUME NEW run \in J[n]
      PROVE  run.done \in 0 .. n /\ run.done \in Nat /\ run \in B[run.done]
  BY <1>1 DEF Runs
<1>4. ASSUME NEW m \in 1 .. n, NEW run \in B[m]
      PROVE  GoneBack(run, Turn(steps, redo, m), redo) \in B[m - 1]
  <2>1. PICK i, new : i = Turn(steps, redo, m) /\ new = GoneBack(run, i, redo)
    OBVIOUS
  <2>2. i \in 1 .. Len(steps) /\ m - 1 \in Nat
    BY <1>1, <2>1, TurnIs
  <2>3. Keeps(w, steps, run) /\ run.done <= n
    BY <1>1
  <2>4. Keeps(w, steps, new) /\ new.done = run.done
    BY <2>1, <2>2, <2>3, GoneBackKeeps
  <2>5. new \in Runs
    BY <2>4 DEF Keeps
  <2> QED BY <1>1, <2>1, <2>2, <2>3, <2>4, <2>5
<1>5. Ran(w, steps, redo) \in B[0] \/ Ran(w, steps, redo) \in J[n]
  <2> HIDE DEF J, B
  <2> QED BY <1>1, <1>2, <1>3, <1>4, RanIs
<1> QED BY <1>1, <1>5

(***************************************************************************)
(* Types.                                                                  *)
(***************************************************************************)

Counts == [tools : 0 .. MaxTools, reused : 0 .. MaxReused, typed : 0 .. MaxTyped,
           saves : 0 .. MaxSaves, writes : 0 .. MaxWrites, early : 0 .. MaxEarly]

LEMMA CountsAre ==
  ASSUME NEW c \in Counts
  PROVE  /\ c = [tools |-> c.tools, reused |-> c.reused, typed |-> c.typed,
                 saves |-> c.saves, writes |-> c.writes, early |-> c.early]
         /\ c.tools \in 0 .. MaxTools /\ c.reused \in 0 .. MaxReused /\ c.typed \in 0 .. MaxTyped
         /\ c.saves \in 0 .. MaxSaves /\ c.writes \in 0 .. MaxWrites /\ c.early \in 0 .. MaxEarly
         /\ MaxTools \in Nat /\ MaxReused \in Nat /\ MaxTyped \in Nat
         /\ MaxSaves \in Nat /\ MaxWrites \in Nat /\ MaxEarly \in Nat
<1> QED BY TransactionAssumption DEF Counts

(* One more of each kind. *)
LEMMA OneMore ==
  ASSUME NEW c \in Counts
  PROVE  /\ c.tools < MaxTools => [c EXCEPT !.tools = @ + 1] \in Counts
         /\ c.typed < MaxTyped => [c EXCEPT !.typed = @ + 1] \in Counts
         /\ c.saves < MaxSaves => [c EXCEPT !.saves = @ + 1] \in Counts
         /\ c.writes < MaxWrites => [c EXCEPT !.writes = @ + 1] \in Counts
         /\ c.early < MaxEarly => [c EXCEPT !.early = @ + 1] \in Counts
<1>1. ASSUME c.tools < MaxTools PROVE [c EXCEPT !.tools = @ + 1] \in Counts
  BY <1>1, CountsAre DEF Counts
<1>2. ASSUME c.typed < MaxTyped PROVE [c EXCEPT !.typed = @ + 1] \in Counts
  BY <1>2, CountsAre DEF Counts
<1>3. ASSUME c.saves < MaxSaves PROVE [c EXCEPT !.saves = @ + 1] \in Counts
  BY <1>3, CountsAre DEF Counts
<1>4. ASSUME c.writes < MaxWrites PROVE [c EXCEPT !.writes = @ + 1] \in Counts
  BY <1>4, CountsAre DEF Counts
<1>5. ASSUME c.early < MaxEarly PROVE [c EXCEPT !.early = @ + 1] \in Counts
  BY <1>5, CountsAre DEF Counts
<1> QED BY <1>1, <1>2, <1>3, <1>4, <1>5

(* The state without the counts, and the counts. *)
Groups == [steps : Seq(Steps), applied : BOOLEAN, error : BOOLEAN]
Stages == {"before", "open", "committed", "over", "compensated"}

LEMMA TypesAre ==
  TypeOK <=> /\ World \in Worlds /\ reopen \subseteq Urls /\ touched \subseteq Urls
             /\ stage \in Stages /\ group \in Groups /\ transaction \in Docs /\ used \in Counts
             /\ atBegin \in [Urls -> Maybe(Texts)] /\ atCommit \in [Urls -> Maybe(Texts)]
<1> QED BY DEF TypeOK, World, Stages, Groups, Counts

LEMMA TypesNext ==
  ASSUME World' \in Worlds, reopen' \subseteq Urls, touched' \subseteq Urls, stage' \in Stages,
         group' \in Groups, transaction' \in Docs, used' \in Counts,
         atBegin' \in [Urls -> Maybe(Texts)], atCommit' \in [Urls -> Maybe(Texts)]
  PROVE  TypeOK'
<1> QED BY DEF TypeOK, World, Stages, Groups, Counts

LEMMA WorldsTypes ==
  ASSUME World \in Worlds
  PROVE  /\ disk \in [Urls -> Maybe(Texts)] /\ page \in [Urls -> Maybe(Editors)] /\ signal \subseteq Urls
         /\ World.disk = disk /\ World.page = page /\ World.signal = signal
<1> QED BY WorldIs DEF World

LEMMA BecomesTypes ==
  ASSUME NEW w \in Worlds, Becomes(w)
  PROVE  World' \in Worlds
<1>1. w.disk \in [Urls -> Maybe(Texts)] /\ w.page \in [Urls -> Maybe(Editors)] /\ w.signal \subseteq Urls
  BY DEF Worlds
<1> QED BY <1>1, WorldIs DEF Becomes, World

LEMMA GroupIs ==
  ASSUME NEW g \in Groups
  PROVE  /\ g = [steps |-> g.steps, applied |-> g.applied, error |-> g.error]
         /\ g.steps \in Seq(Steps) /\ g.applied \in BOOLEAN /\ g.error \in BOOLEAN
         /\ [g EXCEPT !.error = TRUE] \in Groups
         /\ \A steps \in Seq(Steps) : [g EXCEPT !.steps = @ \o steps] \in Groups
<1>1. /\ g = [steps |-> g.steps, applied |-> g.applied, error |-> g.error]
      /\ g.steps \in Seq(Steps) /\ g.applied \in BOOLEAN /\ g.error \in BOOLEAN
  BY DEF Groups
<1>2. [g EXCEPT !.error = TRUE] \in Groups
  BY <1>1 DEF Groups
<1>3. ASSUME NEW steps \in Seq(Steps) PROVE [g EXCEPT !.steps = @ \o steps] \in Groups
  <2>1. PICK all : all = g.steps \o steps
    OBVIOUS
  <2>2. all \in Seq(Steps)
    BY <1>1, <2>1
  <2> QED BY <1>1, <2>1, <2>2 DEF Groups
<1> QED BY <1>1, <1>2, <1>3

LEMMA RecordedIs ==
  ASSUME NEW w \in Worlds, NEW u \in Urls, w.page[u] # {}
  PROVE  /\ Recorded(w, u) \in States /\ Recorded(w, u).before = The(w.page[u]).text
         /\ Recorded(w, u).after = The(w.page[u]).text /\ Recorded(w, u).dirty = The(w.page[u]).modified
<1> QED BY PageIs DEF Recorded, States

(* Each document of j was one of docs, or was opened with what is recorded. *)
JoinedFrom(docs, w, w2, j) ==
  \A u \in DOMAIN j :
    \/ u \in DOMAIN docs /\ j[u] = docs[u]
    \/ w.page[u] = {} /\ w2.page[u] # {} /\ j[u] = Recorded(w2, u)

LEMMA JoinedIs ==
  ASSUME NEW docs \in Docs, NEW w \in Worlds, NEW w2 \in Worlds, NEW j, j = Joined(docs, w, w2)
  PROVE  /\ j \in Docs
         /\ JoinedFrom(docs, w, w2, j)
         /\ DOMAIN j = DOMAIN docs \cup {u \in Urls : w.page[u] = {} /\ w2.page[u] # {}}
<1> DEFINE new == {u \in Urls : w.page[u] = {} /\ w2.page[u] # {}} \ DOMAIN docs
<1>1. DOMAIN docs \subseteq Urls /\ \A u \in DOMAIN docs : docs[u] \in States
  BY DocsAre
<1>2. j = [u \in DOMAIN docs \cup new |-> IF u \in new THEN Recorded(w2, u) ELSE docs[u]]
  BY DEF Joined
<1>3. \A u \in new : Recorded(w2, u) \in States
  BY RecordedIs
<1>4. j \in [DOMAIN docs \cup new -> States]
  BY <1>1, <1>2, <1>3
<1>5. DOMAIN docs \cup new \subseteq Urls
  BY <1>1
<1>6. j \in Docs
  BY <1>4, <1>5, DocsMade
<1>7. DOMAIN j = DOMAIN docs \cup new
  BY <1>2
<1>8. ASSUME NEW u \in DOMAIN j
      PROVE  \/ u \in DOMAIN docs /\ j[u] = docs[u]
             \/ w.page[u] = {} /\ w2.page[u] # {} /\ j[u] = Recorded(w2, u)
  <2>1. CASE u \in new
    BY <1>2, <1>7, <2>1
  <2>2. CASE u \notin new
    BY <1>2, <1>7, <2>2
  <2> QED BY <2>1, <2>2
<1>9. JoinedFrom(docs, w, w2, j)
  <2> HIDE DEF new
  <2> QED BY ONLY <1>8 DEF JoinedFrom
<1>10. DOMAIN j = DOMAIN docs \cup {u \in Urls : w.page[u] = {} /\ w2.page[u] # {}}
  <2>1. PICK all : all = {u \in Urls : w.page[u] = {} /\ w2.page[u] # {}}
    OBVIOUS
  <2>2. DOMAIN docs \cup (all \ DOMAIN docs) = DOMAIN docs \cup all
    OBVIOUS
  <2> QED BY ONLY <1>7, <2>1, <2>2
<1> HIDE DEF new
<1> QED BY <1>6, <1>9, <1>10

LEMMA DocsPart ==
  ASSUME NEW docs \in Docs, NEW us \in SUBSET Urls
  PROVE  /\ [u \in us \cap DOMAIN docs |-> docs[u]] \in Docs
         /\ Forget(docs, us) \in Docs
         /\ EditStep(docs, us) \in Steps
<1>1. DOMAIN docs \subseteq Urls /\ \A u \in DOMAIN docs : docs[u] \in States
  BY DocsAre
<1>2. ASSUME NEW S, S \subseteq DOMAIN docs PROVE [u \in S |-> docs[u]] \in Docs
  <2>1. [u \in S |-> docs[u]] \in [S -> States] /\ S \in SUBSET Urls
    BY <1>1, <1>2
  <2> QED BY <2>1, DocsMade
<1>3. Forget(docs, us) \in Docs
  <2>1. PICK S : S = DOMAIN docs \ us
    OBVIOUS
  <2> QED BY <1>2, <2>1 DEF Forget
<1>4. EditStep(docs, us) \in Steps
  <2>1. PICK S : S = Changed(docs, us)
    OBVIOUS
  <2>2. S \subseteq DOMAIN docs
    BY <2>1 DEF Changed
  <2> QED BY <1>2, <2>1, <2>2 DEF EditStep, Steps
<1> QED BY <1>2, <1>3, <1>4

LEMMA RenamedIs ==
  ASSUME NEW docs \in Docs, NEW u \in Urls, NEW v \in Urls
  PROVE  Renamed(docs, u, v) \in Docs
<1> DEFINE S == (DOMAIN docs \ {u}) \cup (IF u \in DOMAIN docs THEN {v} ELSE {})
<1>1. DOMAIN docs \subseteq Urls /\ \A x \in DOMAIN docs : docs[x] \in States
  BY DocsAre
<1>2. Renamed(docs, u, v) = [x \in S |-> IF x = v /\ u \in DOMAIN docs THEN docs[u] ELSE docs[x]]
  BY DEF Renamed
<1>3. \A x \in S : (IF x = v /\ u \in DOMAIN docs THEN docs[u] ELSE docs[x]) \in States
  BY <1>1
<1>4. Renamed(docs, u, v) \in [S -> States] /\ S \in SUBSET Urls
  BY <1>1, <1>2, <1>3
<1> QED BY <1>4, DocsMade

LEMMA FileStepIs ==
  ASSUME NEW kind \in {"create", "rename", "delete"}, NEW u \in Urls, NEW v \in Urls
  PROVE  /\ Step(kind, u, v) \in Steps /\ Step(kind, u, v).kind = kind
         /\ Step(kind, u, v).url = u /\ Step(kind, u, v).to = v /\ Step(kind, u, v).trash = {}
<1>1. {} \in Maybe(Texts)
  BY DEF Maybe
<1> QED BY <1>1 DEF Step, Steps

LEMMA ContentOf ==
  ASSUME NEW d \in Maybe(Texts), NEW p \in Maybe(Editors), NEW watched
  PROVE  (IF p # {} /\ watched THEN {The(p).text} ELSE d) \in Maybe(Texts)
<1>1. CASE p # {}
  <2>1. The(p) \in Editors
    BY <1>1, MaybeIs
  <2>2. The(p).text \in Texts
    BY <2>1, EditorIs
  <2> QED BY <2>2, OneIn
<1>2. CASE p = {}
  BY <1>2
<1> QED BY <1>1, <1>2

LEMMA ContentIs ==
  ASSUME World \in Worlds, NEW u \in Urls
  PROVE  Content(u) \in Maybe(Texts)
<1>1. disk[u] \in Maybe(Texts) /\ page[u] \in Maybe(Editors)
  BY WorldsTypes
<1> QED BY <1>1, ContentOf DEF Content, Text

LEMMA BeginTypes == ASSUME TypeOK, Begin PROVE TypeOK'
<1>1. /\ World \in Worlds /\ reopen \subseteq Urls /\ touched \subseteq Urls /\ group \in Groups
      /\ used \in Counts /\ atCommit \in [Urls -> Maybe(Texts)]
  BY TypesAre
<1>2. World' = World /\ reopen' = reopen /\ touched' = touched /\ group' = group /\ used' = used
      /\ atCommit' = atCommit
  BY DEF Begin, world, World
<1>3. stage' \in Stages
  BY DEF Begin, Stages
<1>4. transaction' \in Docs
  <2>1. PICK S : S = {v \in Urls : page[v] # {}}
    OBVIOUS
  <2>2. transaction' = [u \in S |-> Recorded(World, u)]
    BY <2>1 DEF Begin
  <2>3. ASSUME NEW u \in S PROVE Recorded(World, u) \in States
    <3>1. u \in Urls /\ World.page[u] # {}
      BY <2>1 DEF World
    <3> QED BY <1>1, <3>1, RecordedIs
  <2>4. transaction' \in [S -> States] /\ S \in SUBSET Urls
    BY <2>1, <2>2, <2>3
  <2> QED BY <2>4, DocsMade
<1>5. atBegin' \in [Urls -> Maybe(Texts)]
  BY <1>1, ContentIs DEF Begin
<1> QED BY <1>1, <1>2, <1>3, <1>4, <1>5, TypesNext

(* A step that leaves the turn alone. *)
LEMMA OthersTypes ==
  ASSUME TypeOK, UNCHANGED <<stage, group, atBegin, atCommit>>,
         World' \in Worlds, reopen' \subseteq Urls, touched' \subseteq Urls, transaction' \in Docs,
         used' \in Counts
  PROVE  TypeOK'
<1> QED BY TypesAre, TypesNext

LEMMA CallTypes ==
  ASSUME TypeOK, UNCHANGED <<reopen, stage, ghosts>>,
         World' \in Worlds, transaction' \in Docs, used' \in Counts, group' \in Groups
  PROVE  TypeOK'
<1> QED BY TypesAre, TypesNext DEF ghosts

LEMMA CallCounts ==
  ASSUME TypeOK, NEW tool, Call(tool)
  PROVE  /\ used' \in Counts /\ UNCHANGED <<reopen, stage, ghosts>>
         /\ used.tools < MaxTools /\ used.tools \in Nat
<1>1. used \in Counts
  BY TypesAre
<1>2. used' = [used EXCEPT !.tools = @ + 1] /\ used.tools < MaxTools /\ UNCHANGED <<reopen, stage, ghosts>>
  BY DEF Call, Use
<1>3. [used EXCEPT !.tools = @ + 1] \in Counts
  BY ONLY <1>1, <1>2, OneMore
<1>4. used.tools \in Nat
  BY ONLY <1>1, CountsAre
<1> QED BY <1>2, <1>3, <1>4

LEMMA CallToCounts ==
  ASSUME TypeOK, NEW tool, NEW u, CallTo(tool, u)
  PROVE  used' \in Counts /\ UNCHANGED <<reopen, stage, ghosts>>
<1>1. used \in Counts
  BY TypesAre
<1>2. used' = [used EXCEPT !.tools = @ + 1, !.reused = IF u \in Freed THEN @ + 1 ELSE @]
      /\ used.tools < MaxTools /\ (u \in Freed => used.reused < MaxReused)
      /\ UNCHANGED <<reopen, stage, ghosts>>
  BY DEF CallTo
<1>3. PICK reused : reused = IF u \in Freed THEN used.reused + 1 ELSE used.reused
  OBVIOUS
<1>4. reused \in 0 .. MaxReused /\ used.tools + 1 \in 0 .. MaxTools
  BY <1>1, <1>2, <1>3, CountsAre
<1>5. used' = [tools |-> used.tools + 1, reused |-> reused, typed |-> used.typed,
               saves |-> used.saves, writes |-> used.writes, early |-> used.early]
  <2>1. used = [tools |-> used.tools, reused |-> used.reused, typed |-> used.typed,
                saves |-> used.saves, writes |-> used.writes, early |-> used.early]
    BY ONLY <1>1, CountsAre
  <2> QED BY ONLY <1>2, <1>3, <2>1
<1> QED BY <1>1, <1>2, <1>4, <1>5, CountsAre DEF Counts

LEMMA AgentText ==
  ASSUME TypeOK, used.tools < MaxTools, NEW t \in Texts
  PROVE  t \cup {<<"agent", used.tools + 1>>} \in Texts
<1>1. used.tools \in Nat /\ MaxTools \in Nat /\ MaxTyped \in Nat /\ MaxWrites \in Nat
  BY TypesAre, CountsAre
<1>2. used.tools + 1 \in 1 .. MaxTools + MaxTyped + MaxWrites
  BY <1>1
<1> QED BY <1>2 DEF Texts

LEMMA PutPage ==
  ASSUME NEW w \in Worlds, NEW u \in Urls, NEW t \in Texts, NEW m \in BOOLEAN,
         NEW w2, w2 = [w EXCEPT !.page[u] = {[text |-> t, modified |-> m]}]
  PROVE  /\ w2 \in Worlds /\ w2.disk = w.disk /\ w2.signal = w.signal
         /\ w2.page = [w.page EXCEPT ![u] = {[text |-> t, modified |-> m]}]
<1>1. {[text |-> t, modified |-> m]} \in Maybe(Editors)
  BY OneIn DEF Editors
<1>2. PICK p : p = {[text |-> t, modified |-> m]}
  OBVIOUS
<1>3. w2 = [disk |-> w.disk, page |-> [w.page EXCEPT ![u] = p], signal |-> w.signal]
      /\ w.page \in [Urls -> Maybe(Editors)] /\ w.disk \in [Urls -> Maybe(Texts)] /\ w.signal \subseteq Urls
  <2>1. w = [disk |-> w.disk, page |-> w.page, signal |-> w.signal]
        /\ w.page \in [Urls -> Maybe(Editors)] /\ w.disk \in [Urls -> Maybe(Texts)] /\ w.signal \subseteq Urls
    BY DEF Worlds
  <2>2. w2 = [w EXCEPT !.page[u] = p]
    BY <1>2
  <2> QED BY ONLY <2>1, <2>2
<1>4. [w.page EXCEPT ![u] = p] \in [Urls -> Maybe(Editors)]
  BY <1>1, <1>2, <1>3
<1>5. w2 \in Worlds
  <2>1. PICK d, q, s : d = w.disk /\ q = [w.page EXCEPT ![u] = p] /\ s = w.signal
    OBVIOUS
  <2>2. w2 = [disk |-> d, page |-> q, signal |-> s]
    BY <1>3, <2>1
  <2>3. d \in [Urls -> Maybe(Texts)] /\ q \in [Urls -> Maybe(Editors)] /\ s \subseteq Urls
    BY <1>3, <1>4, <2>1
  <2> QED BY ONLY <2>2, <2>3, WorldIs
<1>6. w2.disk = w.disk /\ w2.signal = w.signal /\ w2.page = [w.page EXCEPT ![u] = p]
  BY ONLY <1>3
<1> QED BY <1>2, <1>5, <1>6

LEMMA EditTypes == ASSUME TypeOK, NEW u \in Urls, Edit(u) PROVE TypeOK'
<1>1. World \in Worlds /\ transaction \in Docs /\ group \in Groups
  BY TypesAre
<1>2. Call("edit")
  BY DEF Edit
<1>3. PICK open, joined : open = Opened(World, {u}) /\ joined = Joined(transaction, World, open)
  OBVIOUS
<1>4. open \in Worlds /\ open.page[u] # {}
  BY <1>1, <1>3, OpenedIs
<1>5. joined \in Docs
  BY <1>1, <1>3, <1>4, JoinedIs
<1>6. PICK now, text, new : /\ now = The(open.page[u])
                            /\ text = now.text \cup {<<"agent", used.tools + 1>>}
                            /\ new = IF u \in DOMAIN joined THEN joined[u] ELSE Recorded(open, u)
  OBVIOUS
<1>7. \/ /\ Becomes([open EXCEPT !.page[u] = {[text |-> text, modified |-> TRUE]}])
         /\ transaction' = [v \in DOMAIN joined \cup {u} |->
                              IF v = u THEN [new EXCEPT !.after = text] ELSE joined[v]]
         /\ UNCHANGED group
      \/ Becomes(open) /\ transaction' = joined /\ Invalid
  BY <1>3, <1>6 DEF Edit
<1>8. now.text \in Texts
  BY <1>4, <1>6, PageIs
<1>9. text \in Texts
  BY <1>2, <1>6, <1>8, CallCounts, AgentText
<1>10. new \in States
  BY <1>4, <1>5, <1>6, RecordedIs, DocsAre
<1>11. CASE Becomes(open) /\ transaction' = joined /\ Invalid
  <2>1. World' \in Worlds
    BY <1>4, <1>11, BecomesTypes
  <2>2. group' \in Groups
    BY <1>1, <1>11, GroupIs DEF Invalid
  <2> QED BY <1>2, <1>5, <1>11, <2>1, <2>2, CallTypes, CallCounts
<1>12. CASE /\ Becomes([open EXCEPT !.page[u] = {[text |-> text, modified |-> TRUE]}])
            /\ transaction' = [v \in DOMAIN joined \cup {u} |->
                                 IF v = u THEN [new EXCEPT !.after = text] ELSE joined[v]]
            /\ UNCHANGED group
  <2>1. PICK w2 : w2 = [open EXCEPT !.page[u] = {[text |-> text, modified |-> TRUE]}]
    OBVIOUS
  <2>2. w2 \in Worlds
    BY <1>4, <1>9, <2>1, PutPage
  <2>3. World' \in Worlds
    BY <1>12, <2>1, <2>2, BecomesTypes
  <2>4. PICK changed : changed = [new EXCEPT !.after = text]
    OBVIOUS
  <2>5. changed \in States
    BY <1>9, <1>10, <2>4 DEF States
  <2>6. DOMAIN joined \subseteq Urls /\ \A v \in DOMAIN joined : joined[v] \in States
    BY <1>5, DocsAre
  <2>7. PICK S : S = DOMAIN joined \cup {u}
    OBVIOUS
  <2>8. transaction' = [v \in S |-> IF v = u THEN changed ELSE joined[v]]
    BY <1>12, <2>4, <2>7
  <2>9. transaction' \in [S -> States] /\ S \in SUBSET Urls
    BY <2>5, <2>6, <2>7, <2>8
  <2>10. transaction' \in Docs
    BY <2>9, DocsMade
  <2> QED BY <1>1, <1>2, <1>12, <2>3, <2>10, CallTypes, CallCounts
<1> QED BY <1>7, <1>11, <1>12

LEMMA CreateTypes == ASSUME TypeOK, NEW u \in Urls, CreateFile(u) PROVE TypeOK'
<1>1. World \in Worlds /\ transaction \in Docs /\ group \in Groups
  BY TypesAre
<1>2. PICK step, r : step = Step("create", u, u) /\ r = Create(World, step)
  OBVIOUS
<1>3. step \in Steps /\ step.kind # "edit"
  BY <1>2, FileStepIs
<1>4. r.w \in Worlds /\ Same(r.step, step)
  BY <1>1, <1>2, <1>3, CreateIs
<1>5. Becomes(r.w) /\ Push(<<r.step>>) /\ transaction' = Joined(transaction, World, r.w)
  BY <1>2 DEF CreateFile
<1>6. World' \in Worlds
  BY <1>4, <1>5, BecomesTypes
<1>7. transaction' \in Docs
  BY <1>1, <1>4, <1>5, JoinedIs
<1>8. group' \in Groups
  <2>1. <<r.step>> \in Seq(Steps)
    BY <1>3, <1>4 DEF Same
  <2> QED BY <1>1, <1>5, <2>1, GroupIs DEF Push
<1> QED BY <1>6, <1>7, <1>8, CallTypes, CallToCounts DEF CreateFile

LEMMA RenameTypes == ASSUME TypeOK, NEW u \in Urls, NEW v \in Urls, RenameFile(u, v) PROVE TypeOK'
<1>1. World \in Worlds /\ transaction \in Docs /\ group \in Groups
  BY TypesAre
<1>2. PICK step, r : step = Step("rename", u, v) /\ r = Rename(World, u, v, step)
  OBVIOUS
<1>3. step \in Steps
  BY <1>2, FileStepIs
<1>4. r.w \in Worlds /\ Same(r.step, step)
  BY <1>1, <1>2, <1>3, RenameIs
<1>5. \/ Invalid /\ UNCHANGED <<world, transaction>>
      \/ UNCHANGED <<world, transaction, group>>
      \/ Becomes(r.w) /\ Push(<<r.step>>) /\ transaction' = Renamed(transaction, u, v)
  BY <1>2 DEF RenameFile
<1>6. used' \in Counts /\ UNCHANGED <<reopen, stage, ghosts>>
  BY CallToCounts DEF RenameFile
<1>7. CASE Invalid /\ UNCHANGED <<world, transaction>>
  <2>1. group' \in Groups
    BY <1>1, <1>7, GroupIs DEF Invalid
  <2>2. World' \in Worlds
    BY <1>1, <1>7 DEF World, world
  <2> QED BY <1>1, <1>6, <1>7, <2>1, <2>2, CallTypes
<1>8. CASE UNCHANGED <<world, transaction, group>>
  <2>2. World' \in Worlds
    BY <1>1, <1>8 DEF World, world
  <2> QED BY <1>1, <1>6, <1>8, <2>2, CallTypes
<1>9. CASE Becomes(r.w) /\ Push(<<r.step>>) /\ transaction' = Renamed(transaction, u, v)
  <2>1. World' \in Worlds
    BY <1>4, <1>9, BecomesTypes
  <2>2. transaction' \in Docs
    BY <1>1, <1>9, RenamedIs
  <2>3. group' \in Groups
    <3>1. <<r.step>> \in Seq(Steps)
      BY <1>3, <1>4 DEF Same
    <3> QED BY <1>1, <1>9, <3>1, GroupIs DEF Push
  <2> QED BY <1>6, <2>1, <2>2, <2>3, CallTypes
<1> QED BY <1>5, <1>7, <1>8, <1>9

LEMMA DeleteTypes == ASSUME TypeOK, NEW u \in Urls, DeleteFile(u) PROVE TypeOK'
<1>1. World \in Worlds /\ transaction \in Docs /\ group \in Groups
  BY TypesAre
<1>2. PICK step, r, edits : /\ step = Step("delete", u, u) /\ r = Trash(World, step)
                            /\ edits = IF Changed(transaction, {u}) = {} THEN << >>
                                       ELSE <<EditStep(transaction, {u})>>
  OBVIOUS
<1>3. step \in Steps /\ step.kind # "edit"
  BY <1>2, FileStepIs
<1>4. r.w \in Worlds /\ r.step \in Steps
  BY <1>1, <1>2, <1>3, TrashIs
<1>5. \/ Invalid /\ UNCHANGED <<world, transaction>>
      \/ Becomes(r.w) /\ Push(edits \o <<r.step>>) /\ transaction' = Forget(transaction, {u})
  BY <1>2 DEF DeleteFile
<1>6. used' \in Counts /\ UNCHANGED <<reopen, stage, ghosts>>
  <2>1. Call("delete")
    BY DEF DeleteFile
  <2> QED BY <2>1, CallCounts
<1>7. CASE Invalid /\ UNCHANGED <<world, transaction>>
  <2>1. group' \in Groups
    BY <1>1, <1>7, GroupIs DEF Invalid
  <2>2. World' \in Worlds
    BY <1>1, <1>7 DEF World, world
  <2> QED BY <1>1, <1>6, <1>7, <2>1, <2>2, CallTypes
<1>8. CASE Becomes(r.w) /\ Push(edits \o <<r.step>>) /\ transaction' = Forget(transaction, {u})
  <2>1. World' \in Worlds
    BY <1>4, <1>8, BecomesTypes
  <2>2. transaction' \in Docs
    <3>1. PICK us : us = {u}
      OBVIOUS
    <3> QED BY <1>1, <1>8, <3>1, DocsPart
  <2>3. EditStep(transaction, {u}) \in Steps
    <3>1. PICK us : us = {u}
      OBVIOUS
    <3> QED BY <1>1, <3>1, DocsPart
  <2>4. edits \o <<r.step>> \in Seq(Steps)
    BY <1>2, <1>4, <2>3
  <2>5. group' \in Groups
    BY <1>1, <1>8, <2>4, GroupIs DEF Push
  <2> QED BY <1>6, <2>1, <2>2, <2>5, CallTypes
<1> QED BY <1>5, <1>7, <1>8

LEMMA CommitTypes == ASSUME TypeOK, Commit PROVE TypeOK'
<1>1. World \in Worlds /\ transaction \in Docs /\ group \in Groups /\ used \in Counts
      /\ reopen \subseteq Urls /\ touched \subseteq Urls /\ atBegin \in [Urls -> Maybe(Texts)]
  BY TypesAre
<1>2. PICK step, r : /\ step = EditStep(transaction, Urls)
                     /\ r = IF DOMAIN step.docs = {} THEN Works(World, step) ELSE Redo(World, step)
  OBVIOUS
<1>3. step \in Steps /\ step.kind = "edit"
  <2>1. PICK us : us = Urls
    OBVIOUS
  <2> QED BY <1>1, <1>2, <2>1, DocsPart DEF EditStep
<1>4. r.w \in Worlds
  <2>1. CASE DOMAIN step.docs = {}
    BY <1>1, <1>2, <2>1 DEF Works
  <2>2. CASE DOMAIN step.docs # {}
    <3>1. PICK redo \in BOOLEAN : redo = TRUE
      OBVIOUS
    <3>2. r = Do(World, step, redo)
      BY <1>2, <1>3, <2>2, <3>1 DEF Do
    <3> QED BY <1>1, <1>3, <3>2, DoIs
  <2> QED BY <2>1, <2>2
<1>5. /\ Becomes(r.w) /\ transaction' = << >> /\ stage' \in Stages
      /\ UNCHANGED group \/ Push(<<step>>) \/ Invalid
      /\ atCommit' = [u \in Urls |-> Content(u)']
      /\ UNCHANGED <<reopen, used, touched, atBegin>>
  BY <1>2 DEF Commit, Stages
<1>6. World' \in Worlds
  BY <1>4, <1>5, BecomesTypes
<1>7. group' \in Groups
  <2>1. <<step>> \in Seq(Steps)
    BY <1>3
  <2> QED BY <1>1, <1>5, <2>1, GroupIs DEF Push, Invalid
<1>8. << >> \in Docs
  <2>1. << >> \in [{} -> States]
    OBVIOUS
  <2>2. PICK us : us = {}
    OBVIOUS
  <2> QED BY <2>1, <2>2, DocsMade
<1>9. \A u \in Urls : Content(u)' \in Maybe(Texts)
  <2> SUFFICES ASSUME NEW u \in Urls PROVE Content(u)' \in Maybe(Texts)
    OBVIOUS
  <2>1. disk'[u] \in Maybe(Texts) /\ page'[u] \in Maybe(Editors)
    BY <1>6, WorldIs DEF World
  <2> QED BY <2>1, ContentOf DEF Content, Text
<1>10. atCommit' \in [Urls -> Maybe(Texts)]
  BY <1>5, <1>9
<1> QED BY <1>1, <1>5, <1>6, <1>7, <1>8, <1>10, TypesNext

LEMMA WalkTypes == ASSUME TypeOK, NEW redo \in BOOLEAN, Walk(redo) PROVE TypeOK'
<1>1. World \in Worlds /\ transaction \in Docs /\ group \in Groups /\ used \in Counts
      /\ reopen \subseteq Urls /\ touched \subseteq Urls /\ stage \in Stages
      /\ atBegin \in [Urls -> Maybe(Texts)] /\ atCommit \in [Urls -> Maybe(Texts)]
  BY TypesAre
<1>2. PICK run : run = Ran(World, group.steps, redo)
  OBVIOUS
<1>3. group.steps \in Seq(Steps) /\ group.applied \in BOOLEAN
  BY <1>1, GroupIs
<1>4. run \in Runs
  <2>1. PICK w, steps : w = World /\ steps = group.steps
    OBVIOUS
  <2>2. Keeps(w, steps, Ran(w, steps, redo))
    BY <1>1, <1>3, <2>1, RanKeeps
  <2> QED BY <1>2, <2>1, <2>2 DEF Keeps
<1>5. run.ok \in BOOLEAN /\ run.w \in Worlds /\ run.steps \in Seq(Steps) /\ run.torn \in BOOLEAN
  BY <1>4 DEF Runs
<1>6. used' \in Counts
  <2>1. UNCHANGED used \/ Use("early", MaxEarly)
    BY DEF Walk
  <2>2. CASE Use("early", MaxEarly)
    <3>1. used.early < MaxEarly /\ used' = [used EXCEPT !.early = @ + 1]
      BY <2>2 DEF Use
    <3>2. [used EXCEPT !.early = @ + 1] \in Counts
      BY ONLY <1>1, <3>1, OneMore
    <3> QED BY <3>1, <3>2
  <2> QED BY <1>1, <2>1, <2>2
<1>7. \/ UNCHANGED <<world, group>>
      \/ /\ Becomes(run.w)
         /\ group' = [steps |-> run.steps, error |-> ~run.ok /\ run.torn,
                      applied |-> IF run.ok THEN redo ELSE group.applied]
  BY <1>2 DEF Walk
<1>8. stage' \in Stages /\ UNCHANGED <<reopen, transaction, ghosts>>
  BY <1>1 DEF Walk, Stages
<1>9. World' \in Worlds
  BY <1>1, <1>5, <1>7, BecomesTypes DEF World, world
<1>10. group' \in Groups
  <2>1. PICK error, applied : /\ error = (~run.ok /\ run.torn)
                              /\ applied = IF run.ok THEN redo ELSE group.applied
    OBVIOUS
  <2>2. error \in BOOLEAN /\ applied \in BOOLEAN
    BY <1>3, <1>5, <2>1
  <2>3. [steps |-> run.steps, error |-> error, applied |-> applied] \in Groups
    BY <1>5, <2>2 DEF Groups
  <2> QED BY <1>1, <1>7, <2>1, <2>3
<1> QED BY <1>1, <1>6, <1>8, <1>9, <1>10, TypesNext DEF ghosts

LEMMA LoadedTypes ==
  ASSUME TypeOK, NEW us, Loaded(us)
  PROVE  World' \in Worlds /\ transaction' \in Docs
<1>1. World \in Worlds /\ transaction \in Docs
  BY TypesAre
<1>2. PICK open : open = Opened(World, us)
  OBVIOUS
<1>3. open \in Worlds
  BY <1>1, <1>2, OpenedIs
<1>4. Becomes(open)
  BY <1>2 DEF Loaded
<1>5. World' \in Worlds
  BY <1>3, <1>4, BecomesTypes
<1>6. Joined(transaction, World, open) \in Docs
  BY <1>1, <1>3, JoinedIs
<1> QED BY <1>1, <1>2, <1>5, <1>6 DEF Loaded

LEMMA TouchTypes ==
  ASSUME TypeOK, NEW u \in Urls, UNCHANGED touched \/ Touch(u)
  PROVE  touched' \subseteq Urls
<1>1. touched \subseteq Urls /\ group.steps \in Seq(Steps)
  BY TypesAre, GroupIs
<1>2. Moved \subseteq Urls
  <2>1. ASSUME NEW n \in DOMAIN group.steps, group.steps[n].kind = "rename"
        PROVE  group.steps[n].url \in Urls /\ group.steps[n].to \in Urls
    <3>1. PICK step : step = group.steps[n]
      OBVIOUS
    <3>2. step \in Steps
      BY <1>1, <2>1, <3>1
    <3> QED BY <2>1, <3>1, <3>2, StepIs
  <2> QED BY <2>1 DEF Moved
<1> QED BY <1>1, <1>2 DEF Touch

LEMMA NewText ==
  ASSUME TypeOK
  PROVE  /\ used.typed < MaxTyped => \A t \in Texts : t \cup {<<"user", used.typed + 1>>} \in Texts
         /\ used.writes < MaxWrites => {<<"other", used.writes + 1>>} \in Texts
<1>1. used.typed \in Nat /\ used.writes \in Nat /\ MaxTools \in Nat /\ MaxTyped \in Nat /\ MaxWrites \in Nat
  BY TypesAre, CountsAre
<1>2. ASSUME used.typed < MaxTyped PROVE used.typed + 1 \in 1 .. MaxTools + MaxTyped + MaxWrites
  BY <1>1, <1>2
<1>3. ASSUME used.writes < MaxWrites PROVE used.writes + 1 \in 1 .. MaxTools + MaxTyped + MaxWrites
  BY <1>1, <1>3
<1> QED BY <1>2, <1>3 DEF Texts

LEMMA UserTypes ==
  ASSUME TypeOK, NEW u \in Urls, Open(u) \/ Type(u) \/ Save(u) \/ Close(u) \/ OtherWrites(u)
  PROVE  TypeOK'
<1>1. World \in Worlds /\ transaction \in Docs /\ used \in Counts
      /\ reopen \subseteq Urls /\ touched \subseteq Urls
  BY TypesAre
<1>2. disk \in [Urls -> Maybe(Texts)] /\ page \in [Urls -> Maybe(Editors)] /\ signal \subseteq Urls
  BY <1>1, WorldsTypes
<1>3. {} \in Maybe(Editors)
  BY DEF Maybe
<1>4. ASSUME page[u] # {} PROVE Text(u) \in Texts /\ The(page[u]) \in Editors
  <2>1. page[u] \in Maybe(Editors)
    BY <1>2
  <2>2. The(page[u]) \in Editors
    BY <1>4, <2>1, MaybeIs
  <2> QED BY <2>2, EditorIs DEF Text
<1>5. ASSUME NEW t \in Texts, NEW m \in BOOLEAN
      PROVE  [page EXCEPT ![u] = {[text |-> t, modified |-> m]}] \in [Urls -> Maybe(Editors)]
  <2>1. [text |-> t, modified |-> m] \in Editors
    BY DEF Editors
  <2>2. PICK e : e = {[text |-> t, modified |-> m]}
    OBVIOUS
  <2>3. e \in Maybe(Editors)
    BY <2>1, <2>2, OneIn
  <2> QED BY <1>2, <2>2, <2>3
<1>6. CASE Open(u)
  <2>1. Loaded({u}) /\ UNCHANGED <<reopen, stage, group, used, ghosts>>
    BY <1>6 DEF Open
  <2>2. PICK us : us = {u}
    OBVIOUS
  <2>3. World' \in Worlds /\ transaction' \in Docs
    BY <2>1, <2>2, LoadedTypes
  <2> QED BY <1>1, <2>1, <2>3, OthersTypes DEF ghosts
<1>7. CASE Type(u)
  <2>1. /\ page[u] # {} /\ used.typed < MaxTyped /\ used' = [used EXCEPT !.typed = @ + 1]
        /\ Touch(u) /\ UNCHANGED <<disk, signal, reopen, stage, group, transaction, atBegin, atCommit>>
    BY <1>7 DEF Type, Use
  <2>2. used' \in Counts
    BY ONLY <1>1, <2>1, OneMore
  <2>3. used'.typed = used.typed + 1
    BY ONLY <1>1, <2>1, CountsAre
  <2>4. PICK t : t = Text(u) \cup {<<"user", used.typed + 1>>}
    OBVIOUS
  <2>5. t \in Texts
    BY <1>4, <2>1, <2>4, NewText
  <2>6. page' = [page EXCEPT ![u] = {[text |-> t, modified |-> TRUE]}]
    BY <1>7, <2>3, <2>4 DEF Type
  <2>7. page' \in [Urls -> Maybe(Editors)]
    BY <1>5, <2>5, <2>6
  <2>8. World' \in Worlds
    BY <1>2, <2>1, <2>7, WorldIs DEF World
  <2>9. touched' \subseteq Urls
    BY <2>1, TouchTypes
  <2> QED BY <1>1, <2>1, <2>2, <2>8, <2>9, OthersTypes
<1>8. CASE Save(u)
  <2>1. /\ page[u] # {} /\ used.saves < MaxSaves /\ used' = [used EXCEPT !.saves = @ + 1]
        /\ disk' = [disk EXCEPT ![u] = {Text(u)}]
        /\ page' = [page EXCEPT ![u] = {[text |-> Text(u), modified |-> FALSE]}]
        /\ Touch(u) \/ UNCHANGED touched
        /\ UNCHANGED <<signal, reopen, stage, group, transaction, atBegin, atCommit>>
    BY <1>8 DEF Save, Use
  <2>2. used' \in Counts
    BY ONLY <1>1, <2>1, OneMore
  <2>3. page' \in [Urls -> Maybe(Editors)]
    BY <1>4, <1>5, <2>1
  <2>4. disk' \in [Urls -> Maybe(Texts)]
    BY <1>2, <1>4, <2>1, OneIn
  <2>5. World' \in Worlds
    BY <1>2, <2>1, <2>3, <2>4, WorldIs DEF World
  <2>6. touched' \subseteq Urls
    BY <2>1, TouchTypes
  <2> QED BY <1>1, <2>1, <2>2, <2>5, <2>6, OthersTypes
<1>9. CASE Close(u)
  <2>1. /\ page' = [page EXCEPT ![u] = {}]
        /\ Touch(u) \/ UNCHANGED touched
        /\ UNCHANGED <<disk, signal, reopen, stage, group, transaction, used, atBegin, atCommit>>
    BY <1>9 DEF Close
  <2>2. page' \in [Urls -> Maybe(Editors)]
    BY <1>2, <1>3, <2>1
  <2>3. World' \in Worlds
    BY <1>2, <2>1, <2>2, WorldIs DEF World
  <2>4. touched' \subseteq Urls
    BY <2>1, TouchTypes
  <2> QED BY <1>1, <2>1, <2>3, <2>4, OthersTypes
<1>10. CASE OtherWrites(u)
  <2>1. /\ used.writes < MaxWrites /\ used' = [used EXCEPT !.writes = @ + 1]
        /\ disk' = [disk EXCEPT ![u] = {{<<"other", used'.writes>>}}]
        /\ signal' = Reported(World, u) /\ Touch(u)
        /\ UNCHANGED <<page, reopen, stage, group, transaction, atBegin, atCommit>>
    BY <1>10 DEF OtherWrites, Use
  <2>2. used' \in Counts
    BY ONLY <1>1, <2>1, OneMore
  <2>3. used'.writes = used.writes + 1
    BY ONLY <1>1, <2>1, CountsAre
  <2>4. PICK t : t = {<<"other", used.writes + 1>>}
    OBVIOUS
  <2>5. t \in Texts
    BY <2>1, <2>4, NewText
  <2>6. disk' = [disk EXCEPT ![u] = {t}] /\ {t} \in Maybe(Texts)
    BY <2>1, <2>3, <2>4, <2>5, OneIn
  <2>7. disk' \in [Urls -> Maybe(Texts)] /\ signal' \subseteq Urls
    <3>1. disk' \in [Urls -> Maybe(Texts)]
      BY ONLY <1>2, <2>6
    <3>2. World.signal = signal
      BY DEF World
    <3> QED BY <1>2, <2>1, <3>1, <3>2 DEF Reported
  <2>8. World' \in Worlds
    <3>1. page' \in [Urls -> Maybe(Editors)]
      BY <1>2, <2>1
    <3> QED BY ONLY <3>1, <2>7, WorldIs DEF World
  <2>9. touched' \subseteq Urls
    BY <2>1, TouchTypes
  <2> QED BY <1>1, <2>1, <2>2, <2>8, <2>9, OthersTypes
<1> QED BY <1>6, <1>7, <1>8, <1>9, <1>10

LEMMA WatcherTypes ==
  ASSUME TypeOK, NEW u \in Urls, Report(u) \/ Destroyed(u)
  PROVE  TypeOK'
<1>1. World \in Worlds /\ transaction \in Docs /\ used \in Counts
      /\ reopen \subseteq Urls /\ touched \subseteq Urls
  BY TypesAre
<1>2. disk \in [Urls -> Maybe(Texts)] /\ page \in [Urls -> Maybe(Editors)] /\ signal \subseteq Urls
  BY <1>1, WorldsTypes
<1>3. CASE Report(u)
  <2>1. /\ signal' = signal \ {u} /\ page' = [page EXCEPT ![u] = {}] /\ reopen' \subseteq reopen \cup {u}
        /\ UNCHANGED <<disk, stage, group, transaction, used, ghosts>>
    BY <1>3 DEF Report
  <2>2. {} \in Maybe(Editors)
    BY DEF Maybe
  <2>3. World' \in Worlds
    BY <1>2, <2>1, <2>2, WorldIs DEF World
  <2> QED BY <1>1, <2>1, <2>3, OthersTypes DEF ghosts
<1>4. CASE Destroyed(u)
  <2>1. PICK us : Loaded(us)
    BY <1>4 DEF Destroyed
  <2>2. reopen' \subseteq reopen /\ UNCHANGED <<stage, group, used, ghosts>>
    BY <1>4 DEF Destroyed
  <2>3. World' \in Worlds /\ transaction' \in Docs
    BY <2>1, LoadedTypes
  <2> QED BY <1>1, <2>2, <2>3, OthersTypes DEF ghosts
<1> QED BY <1>3, <1>4

LEMMA InitTypes == Init => TypeOK
<1> SUFFICES ASSUME Init PROVE TypeOK
  OBVIOUS
<1>1. {} \in Maybe(Texts) /\ {{}} \in Maybe(Texts) /\ {} \in Maybe(Editors)
  BY EmptyText DEF Maybe
<1>2. disk \in [Urls -> {{}, {{}}}] /\ page = [u \in Urls |-> {}] /\ signal = {}
  BY DEF Init
<1>3. World \in Worlds
  <2>1. disk \in [Urls -> Maybe(Texts)] /\ page \in [Urls -> Maybe(Editors)] /\ signal \subseteq Urls
    BY ONLY <1>1, <1>2
  <2> QED BY <2>1, WorldIs DEF World
<1>4. << >> \in Docs
  <2>1. << >> \in [{} -> States]
    OBVIOUS
  <2>2. PICK us : us = {}
    OBVIOUS
  <2> QED BY <2>1, <2>2, DocsMade
<1>5. [steps |-> << >>, applied |-> TRUE, error |-> FALSE] \in Groups
  BY DEF Groups
<1>6. [tools |-> 0, reused |-> 0, typed |-> 0, saves |-> 0, writes |-> 0, early |-> 0] \in Counts
  BY TransactionAssumption DEF Counts
<1>7. [u \in Urls |-> {}] \in [Urls -> Maybe(Texts)]
  BY <1>1
<1> QED BY <1>3, <1>4, <1>5, <1>6, <1>7, TypesAre DEF Init, Stages

LEMMA TypeStep == TypeOK /\ [Next]_vars => TypeOK'
<1> SUFFICES ASSUME TypeOK, [Next]_vars PROVE TypeOK'
  OBVIOUS
<1>1. CASE Begin
  BY <1>1, BeginTypes
<1>2. CASE Commit
  BY <1>2, CommitTypes
<1>3. ASSUME NEW u \in Urls, Edit(u) \/ CreateFile(u) \/ DeleteFile(u) PROVE TypeOK'
  BY <1>3, EditTypes, CreateTypes, DeleteTypes
<1>4. ASSUME NEW u \in Urls, NEW v \in Urls, RenameFile(u, v) PROVE TypeOK'
  BY <1>4, RenameTypes
<1>5. ASSUME NEW redo \in BOOLEAN, Walk(redo) PROVE TypeOK'
  BY <1>5, WalkTypes
<1>6. ASSUME NEW u \in Urls, Open(u) \/ Type(u) \/ Save(u) \/ Close(u) \/ OtherWrites(u) PROVE TypeOK'
  BY <1>6, UserTypes
<1>7. ASSUME NEW u \in Urls, Report(u) \/ Destroyed(u) PROVE TypeOK'
  BY <1>7, WatcherTypes
<1>8. CASE UNCHANGED vars
  BY <1>8 DEF vars, world, ghosts, TypeOK
<1> QED BY <1>1, <1>2, <1>3, <1>4, <1>5, <1>6, <1>7, <1>8 DEF Next

(* Documents, the steps of the group and the bounds keep their types.      *)
THEOREM DocumentTypeOK == Spec => []TypeOK
<1> QED BY InitTypes, TypeStep, PTL DEF Spec

(***************************************************************************)
(* Typing is spared: what is recorded of an edit differs by what the agent *)
(* wrote only.                                                             *)
(***************************************************************************)

AllFine == Fine(transaction) /\ FineSteps(group.steps)

LEMMA JoinedFine ==
  ASSUME NEW docs \in Docs, Fine(docs), NEW w \in Worlds, NEW w2 \in Worlds
  PROVE  Fine(Joined(docs, w, w2))
<1>1. PICK j : j = Joined(docs, w, w2)
  OBVIOUS
<1>2. j \in Docs
  BY <1>1, JoinedIs
<1>3. JoinedFrom(docs, w, w2, j)
  BY <1>1, JoinedIs
<1>4. ASSUME NEW u \in DOMAIN j PROVE Typed(j[u].before) = Typed(j[u].after)
  <2>1. u \in Urls
    BY <1>2, DocsAre
  <2>2. CASE u \in DOMAIN docs /\ j[u] = docs[u]
    BY <2>2 DEF Fine
  <2>3. CASE w2.page[u] # {} /\ j[u] = Recorded(w2, u)
    <3>1. j[u].before = j[u].after
      BY <2>1, <2>3, RecordedIs
    <3> QED BY <3>1
  <2> QED BY <1>3, <2>2, <2>3 DEF JoinedFrom
<1> QED BY <1>1, <1>4 DEF Fine

LEMMA ConcatFine ==
  ASSUME NEW old \in Seq(Steps), FineSteps(old), NEW steps \in Seq(Steps), FineSteps(steps)
  PROVE  old \o steps \in Seq(Steps) /\ FineSteps(old \o steps)
<1>1. PICK all : all = old \o steps
  OBVIOUS
<1>2. /\ all \in Seq(Steps)
      /\ Len(all) = Len(old) + Len(steps) /\ Len(old) \in Nat /\ Len(steps) \in Nat
      /\ \A n \in 1 .. Len(all) : all[n] = IF n <= Len(old) THEN old[n] ELSE steps[n - Len(old)]
  BY <1>1
<1>3. ASSUME NEW n \in 1 .. Len(all) PROVE FineStep(all[n])
  <2>1. CASE n <= Len(old)
    BY <1>2, <2>1 DEF FineSteps
  <2>2. CASE n > Len(old)
    <3>1. PICK m : m = n - Len(old)
      OBVIOUS
    <3>2. m \in 1 .. Len(steps) /\ all[n] = steps[m]
      BY <1>2, <2>2, <3>1
    <3> QED BY <3>2 DEF FineSteps
  <2> QED BY <1>2, <2>1, <2>2
<1> QED BY <1>1, <1>2, <1>3 DEF FineSteps

LEMMA PushFine ==
  ASSUME NEW g \in Groups, FineSteps(g.steps), NEW steps \in Seq(Steps), FineSteps(steps),
         NEW new, new = [g EXCEPT !.steps = @ \o steps]
  PROVE  FineSteps(new.steps)
<1>1. PICK old : old = g.steps
  OBVIOUS
<1>2. old \in Seq(Steps) /\ FineSteps(old)
  BY <1>1, GroupIs
<1>3. new.steps = old \o steps
  BY <1>1, GroupIs
<1> QED BY <1>2, <1>3, ConcatFine

LEMMA OneFine ==
  ASSUME NEW step, FineStep(step)
  PROVE  FineSteps(<<step>>)
<1>1. Len(<<step>>) = 1 /\ <<step>>[1] = step
  OBVIOUS
<1> QED BY <1>1 DEF FineSteps

LEMMA EditStepFine ==
  ASSUME NEW docs, Fine(docs), NEW us
  PROVE  FineStep(EditStep(docs, us))
<1>1. PICK S : S = Changed(docs, us)
  OBVIOUS
<1>2. S \subseteq DOMAIN docs
  BY <1>1 DEF Changed
<1>3. EditStep(docs, us).docs = [u \in S |-> docs[u]]
  BY <1>1 DEF EditStep
<1> QED BY <1>2, <1>3 DEF FineStep, Fine

LEMMA LoadedFine ==
  ASSUME TypeOK, AllFine, NEW us, Loaded(us), UNCHANGED group
  PROVE  AllFine'
<1>1. World \in Worlds /\ transaction \in Docs
  BY TypesAre
<1>2. PICK open : open = Opened(World, us)
  OBVIOUS
<1>3. open \in Worlds
  BY <1>1, <1>2, OpenedIs
<1>4. Fine(Joined(transaction, World, open))
  BY <1>1, <1>3, JoinedFine DEF AllFine
<1> QED BY <1>2, <1>4 DEF AllFine, Loaded

LEMMA EditFine == ASSUME TypeOK, AllFine, NEW u \in Urls, Edit(u) PROVE AllFine'
<1>1. World \in Worlds /\ transaction \in Docs
  BY TypesAre
<1>2. PICK open, joined : open = Opened(World, {u}) /\ joined = Joined(transaction, World, open)
  OBVIOUS
<1>3. open \in Worlds /\ open.page[u] # {}
  BY <1>1, <1>2, OpenedIs
<1>4. joined \in Docs /\ Fine(joined)
  BY <1>1, <1>2, <1>3, JoinedIs, JoinedFine DEF AllFine
<1>5. PICK now, text, new, changed :
        /\ now = The(open.page[u])
        /\ text = now.text \cup {<<"agent", used.tools + 1>>}
        /\ new = IF u \in DOMAIN joined THEN joined[u] ELSE Recorded(open, u)
        /\ changed = [new EXCEPT !.after = text]
  OBVIOUS
<1>6. \/ /\ new.after = now.text
         /\ transaction' = [v \in DOMAIN joined \cup {u} |-> IF v = u THEN changed ELSE joined[v]]
         /\ UNCHANGED group
      \/ transaction' = joined /\ Invalid
  BY <1>2, <1>5 DEF Edit
<1>7. CASE transaction' = joined /\ Invalid
  <2>1. group'.steps = group.steps
    BY <1>7, TypesAre, GroupIs DEF Invalid
  <2> QED BY <1>4, <1>7, <2>1 DEF AllFine
<1>8. CASE /\ new.after = now.text
           /\ transaction' = [v \in DOMAIN joined \cup {u} |-> IF v = u THEN changed ELSE joined[v]]
           /\ UNCHANGED group
  <2>1. new \in States /\ Typed(new.before) = Typed(new.after)
    <3>1. CASE u \in DOMAIN joined
      BY <1>4, <1>5, <3>1, DocsAre DEF Fine
    <3>2. CASE u \notin DOMAIN joined
      <4>1. new = Recorded(open, u)
        BY <1>5, <3>2
      <4>2. Recorded(open, u) \in States /\ Recorded(open, u).before = Recorded(open, u).after
        BY <1>3, RecordedIs
      <4> QED BY <4>1, <4>2
    <3> QED BY <3>1, <3>2
  <2>2. changed.before = new.before /\ changed.after = text
    BY <1>5, <2>1 DEF States
  <2>3. Typed(text) = Typed(now.text)
    <3>1. <<"agent", used.tools + 1>>[1] # "user"
      OBVIOUS
    <3> QED BY <1>5, <3>1 DEF Typed
  <2>4. Typed(changed.before) = Typed(changed.after)
    BY <1>8, <2>1, <2>2, <2>3
  <2>5. ASSUME NEW v \in DOMAIN joined \cup {u}
        PROVE  Typed((IF v = u THEN changed ELSE joined[v]).before) =
                 Typed((IF v = u THEN changed ELSE joined[v]).after)
    <3>1. CASE v = u
      BY <2>4, <3>1
    <3>2. CASE v # u
      BY <1>4, <2>5, <3>2 DEF Fine
    <3> QED BY <3>1, <3>2
  <2>6. Fine(transaction')
    BY <1>8, <2>5 DEF Fine
  <2> QED BY <1>8, <2>6 DEF AllFine
<1> QED BY <1>6, <1>7, <1>8

LEMMA CreateFine == ASSUME TypeOK, AllFine, NEW u \in Urls, CreateFile(u) PROVE AllFine'
<1>1. World \in Worlds /\ transaction \in Docs /\ group \in Groups
  BY TypesAre
<1>2. PICK step, r : step = Step("create", u, u) /\ r = Create(World, step)
  OBVIOUS
<1>3. step \in Steps /\ step.kind = "create"
  BY <1>2, FileStepIs
<1>4. r.w \in Worlds /\ r.step = step
  <2>1. r.w \in Worlds /\ Same(r.step, step)
    BY <1>1, <1>2, <1>3, CreateIs
  <2> QED BY <2>1 DEF Same
<1>5. Push(<<step>>) /\ transaction' = Joined(transaction, World, r.w)
  BY <1>2, <1>4 DEF CreateFile
<1>6. Fine(transaction')
  BY <1>1, <1>4, <1>5, JoinedFine DEF AllFine
<1>7. FineSteps(<<step>>) /\ <<step>> \in Seq(Steps)
  BY <1>3, OneFine DEF FineStep
<1>8. FineSteps(group'.steps)
  BY <1>1, <1>5, <1>7, PushFine DEF Push, AllFine
<1> QED BY <1>6, <1>8 DEF AllFine

LEMMA RenameFine ==
  ASSUME TypeOK, AllFine, NEW u \in Urls, NEW v \in Urls, RenameFile(u, v)
  PROVE  AllFine'
<1>1. World \in Worlds /\ transaction \in Docs /\ group \in Groups
  BY TypesAre
<1>2. PICK step, r : step = Step("rename", u, v) /\ r = Rename(World, u, v, step)
  OBVIOUS
<1>3. step \in Steps /\ step.kind = "rename"
  BY <1>2, FileStepIs
<1>4. r.step = step
  <2>1. Same(r.step, step)
    BY <1>1, <1>2, <1>3, RenameIs
  <2> QED BY <2>1 DEF Same
<1>5. \/ Invalid /\ UNCHANGED transaction
      \/ UNCHANGED <<transaction, group>>
      \/ Push(<<step>>) /\ transaction' = Renamed(transaction, u, v)
  BY <1>2, <1>4 DEF RenameFile
<1>6. CASE Invalid /\ UNCHANGED transaction
  <2>1. group'.steps = group.steps
    BY <1>1, <1>6, GroupIs DEF Invalid
  <2> QED BY <1>6, <2>1 DEF AllFine
<1>7. CASE UNCHANGED <<transaction, group>>
  BY <1>7 DEF AllFine
<1>8. CASE Push(<<step>>) /\ transaction' = Renamed(transaction, u, v)
  <2>1. FineSteps(<<step>>) /\ <<step>> \in Seq(Steps)
    BY <1>3, OneFine DEF FineStep
  <2>2. FineSteps(group'.steps)
    BY <1>1, <1>8, <2>1, PushFine DEF Push, AllFine
  <2>3. Fine(Renamed(transaction, u, v))
    BY DEF AllFine, Fine, Renamed
  <2> QED BY <1>8, <2>2, <2>3 DEF AllFine
<1> QED BY <1>5, <1>6, <1>7, <1>8

LEMMA DeleteFine == ASSUME TypeOK, AllFine, NEW u \in Urls, DeleteFile(u) PROVE AllFine'
<1>1. World \in Worlds /\ transaction \in Docs /\ group \in Groups
  BY TypesAre
<1>2. PICK step, r, edits : /\ step = Step("delete", u, u) /\ r = Trash(World, step)
                            /\ edits = IF Changed(transaction, {u}) = {} THEN << >>
                                       ELSE <<EditStep(transaction, {u})>>
  OBVIOUS
<1>3. step \in Steps /\ step.kind = "delete"
  BY <1>2, FileStepIs
<1>4. r.step \in Steps /\ r.step.kind = "delete"
  <2>1. r.step \in Steps /\ SameFile(r.step, step)
    BY <1>1, <1>2, <1>3, TrashIs
  <2> QED BY <1>3, <2>1 DEF SameFile
<1>5. \/ Invalid /\ UNCHANGED transaction
      \/ Push(edits \o <<r.step>>) /\ transaction' = Forget(transaction, {u})
  BY <1>2 DEF DeleteFile
<1>6. CASE Invalid /\ UNCHANGED transaction
  <2>1. group'.steps = group.steps
    BY <1>1, <1>6, GroupIs DEF Invalid
  <2> QED BY <1>6, <2>1 DEF AllFine
<1>7. CASE Push(edits \o <<r.step>>) /\ transaction' = Forget(transaction, {u})
  <2>1. PICK edit, new : edit = EditStep(transaction, {u}) /\ new = r.step
    OBVIOUS
  <2>2. edit \in Steps /\ FineStep(edit)
    <3>1. PICK us : us = {u}
      OBVIOUS
    <3> QED BY <1>1, <2>1, <3>1, DocsPart, EditStepFine DEF AllFine
  <2>3. FineStep(new) /\ new \in Steps
    BY <1>4, <2>1 DEF FineStep
  <2>4. edits \o <<new>> \in Seq(Steps) /\ FineSteps(edits \o <<new>>)
    <3>1. edits \in Seq(Steps) /\ FineSteps(edits)
      <4>1. CASE edits = << >>
        BY <4>1 DEF FineSteps
      <4>2. CASE edits = <<edit>>
        BY <2>2, <4>2, OneFine
      <4> QED BY <1>2, <2>1, <4>1, <4>2
    <3>2. PICK last : last = <<new>>
      OBVIOUS
    <3>3. last \in Seq(Steps) /\ FineSteps(last)
      BY <2>3, <3>2, OneFine
    <3> QED BY <3>1, <3>2, <3>3, ConcatFine
  <2>5. FineSteps(group'.steps)
    BY <1>1, <1>7, <2>1, <2>4, PushFine DEF Push, AllFine
  <2>6. Fine(Forget(transaction, {u}))
    BY DEF AllFine, Fine, Forget
  <2> QED BY <1>7, <2>5, <2>6 DEF AllFine
<1> QED BY <1>5, <1>6, <1>7

LEMMA CommitFine == ASSUME TypeOK, AllFine, Commit PROVE AllFine'
<1>1. transaction \in Docs /\ group \in Groups
  BY TypesAre
<1>2. PICK step : step = EditStep(transaction, Urls)
  OBVIOUS
<1>3. step \in Steps /\ FineStep(step)
  <2>1. PICK us : us = Urls
    OBVIOUS
  <2> QED BY <1>1, <1>2, <2>1, DocsPart, EditStepFine DEF AllFine
<1>4. transaction' = << >> /\ (UNCHANGED group \/ Push(<<step>>) \/ Invalid)
  BY <1>2 DEF Commit
<1>5. Fine(transaction')
  BY <1>4 DEF Fine
<1>6. FineSteps(group'.steps)
  <2>1. CASE UNCHANGED group
    BY <2>1 DEF AllFine
  <2>2. CASE Invalid
    BY <1>1, <2>2, GroupIs DEF Invalid, AllFine
  <2>3. CASE Push(<<step>>)
    <3>1. FineSteps(<<step>>) /\ <<step>> \in Seq(Steps)
      BY <1>3, OneFine
    <3> QED BY <1>1, <2>3, <3>1, PushFine DEF Push, AllFine
  <2> QED BY <1>4, <2>1, <2>2, <2>3
<1> QED BY <1>5, <1>6 DEF AllFine

LEMMA WalkFine ==
  ASSUME TypeOK, AllFine, NEW redo \in BOOLEAN, Walk(redo)
  PROVE  AllFine' /\ Spares(World, World')
<1>1. World \in Worlds /\ group \in Groups
  BY TypesAre
<1>2. PICK w, steps, run : w = World /\ steps = group.steps /\ run = Ran(w, steps, redo)
  OBVIOUS
<1>3. steps \in Seq(Steps) /\ w \in Worlds /\ FineSteps(steps)
  BY <1>1, <1>2, GroupIs DEF AllFine
<1>4. FineSteps(run.steps) /\ Spares(w, run.w)
  BY <1>2, <1>3, RanKeeps DEF Keeps
<1>5. UNCHANGED transaction
  BY DEF Walk
<1>6. \/ UNCHANGED <<world, group>>
      \/ Becomes(run.w) /\ group'.steps = run.steps
  BY <1>2 DEF Walk
<1>7. CASE UNCHANGED <<world, group>>
  <2>1. World' = World
    BY <1>7 DEF World, world
  <2> QED BY <1>5, <1>7, <2>1, SparesPages DEF AllFine
<1>8. CASE Becomes(run.w) /\ group'.steps = run.steps
  <2>1. World'.page = run.w.page
    BY <1>8 DEF Becomes, World
  <2>2. Spares(World, World')
    BY <1>2, <1>4, <2>1 DEF Spares
  <2> QED BY <1>4, <1>5, <1>8, <2>2 DEF AllFine
<1> QED BY <1>6, <1>7, <1>8

LEMMA FineStepAll == TypeOK /\ AllFine /\ [Next]_vars => AllFine'
<1> SUFFICES ASSUME TypeOK, AllFine, [Next]_vars PROVE AllFine'
  OBVIOUS
<1>1. CASE Begin
  <2>1. transaction' = [u \in {v \in Urls : page[v] # {}} |-> Recorded(World, u)] /\ UNCHANGED group
    BY <1>1 DEF Begin
  <2>2. ASSUME NEW u \in Urls, page[u] # {} PROVE Recorded(World, u).before = Recorded(World, u).after
    BY DEF Recorded
  <2> QED BY <2>1, <2>2 DEF AllFine, Fine
<1>2. CASE Commit
  BY <1>2, CommitFine
<1>3. ASSUME NEW u \in Urls, Edit(u) \/ CreateFile(u) \/ DeleteFile(u) PROVE AllFine'
  BY <1>3, EditFine, CreateFine, DeleteFine
<1>4. ASSUME NEW u \in Urls, NEW v \in Urls, RenameFile(u, v) PROVE AllFine'
  BY <1>4, RenameFine
<1>5. ASSUME NEW redo \in BOOLEAN, Walk(redo) PROVE AllFine'
  BY <1>5, WalkFine
<1>6. ASSUME NEW u \in Urls, Open(u) \/ Destroyed(u) PROVE AllFine'
  <2>1. PICK us : Loaded(us) /\ UNCHANGED group
    BY <1>6 DEF Open, Destroyed
  <2> QED BY <2>1, LoadedFine
<1>7. ASSUME NEW u \in Urls, Type(u) \/ Save(u) \/ Close(u) \/ OtherWrites(u) \/ Report(u) PROVE AllFine'
  BY <1>7 DEF Type, Save, Close, OtherWrites, Report, AllFine
<1>8. CASE UNCHANGED vars
  BY <1>8 DEF vars, AllFine
<1> QED BY <1>1, <1>2, <1>3, <1>4, <1>5, <1>6, <1>7, <1>8 DEF Next

(* Undoing or redoing the turn takes nothing that was typed out of a       *)
(* document that is open: the texts of an edit differ by what the agent    *)
(* wrote, and are set where one of them is found (_transactionUndo,        *)
(* _transactionRedo, linesSet).                                            *)
THEOREM DocumentTypingSpared == Spec => TypingSpared
<1>1. Init => AllFine
  BY DEF Init, AllFine, Fine, FineSteps
<1>2. TypeOK /\ AllFine /\ [Next]_vars =>
        [\A redo \in BOOLEAN : Walk(redo) =>
           \A u \in Urls : page[u] # {} =>
             page'[u] # {} /\ Typed(Text(u)) \subseteq Typed(Text(u)')]_vars
  <2> SUFFICES ASSUME TypeOK, AllFine, NEW redo \in BOOLEAN, Walk(redo), NEW u \in Urls, page[u] # {}
               PROVE  page'[u] # {} /\ Typed(Text(u)) \subseteq Typed(Text(u)')
    OBVIOUS
  <2>1. Spares(World, World')
    BY WalkFine
  <2>2. World.page = page /\ World'.page = page'
    BY DEF World
  <2> QED BY <2>1, <2>2 DEF Spares, Text
<1> QED BY <1>1, <1>2, FineStepAll, DocumentTypeOK, PTL DEF Spec, TypingSpared

(***************************************************************************)
(* What is not marked as modified is saved: the files the turn leads       *)
(* through, there and back.                                                *)
(***************************************************************************)

(* CleanMeansSaved of any world. *)
Clean(w) == \A u \in Urls : w.page[u] # {} /\ ~The(w.page[u]).modified /\ u \notin w.signal =>
              w.disk[u] = {The(w.page[u]).text}

(* The files a document is edited over: there is one, and without unsaved  *)
(* changes it has the text from before.                                    *)
Over(docs, d) == \A u \in DOMAIN docs : d[u] # {} /\ (~docs[u].dirty => d[u] = {docs[u].before})

(* A step leads from files d to files e. *)
Leads(step, d, e) ==
  \/ step.kind = "edit" /\ e = d /\ Over(step.docs, d)
  \/ /\ step.kind = "create" /\ d[step.url] = {} /\ e = [d EXCEPT ![step.url] = {{}}]
     /\ step.trash = {} \/ step.trash = {{}}
  \/ /\ step.kind = "delete" /\ d[step.url] # {} /\ e = [d EXCEPT ![step.url] = {}]
     /\ step.trash = d[step.url]
  \/ /\ step.kind = "rename" /\ step.url # step.to /\ d[step.url] # {} /\ d[step.to] = {}
     /\ e = [d EXCEPT ![step.url] = {}, ![step.to] = d[step.url]]

Files == [Urls -> Maybe(Texts)]

LEMMA OpenedClean ==
  ASSUME NEW w \in Worlds, NEW us, Clean(w), \A u \in us \cap Urls : w.disk[u] # {}
  PROVE  Clean(Opened(w, us))
<1>1. PICK o : o = Opened(w, us)
  OBVIOUS
<1>2. o.disk = w.disk /\ o.signal = w.signal
  <2>1. Same(o.disk, w.disk) /\ Same(o.signal, w.signal)
    BY <1>1, OpenedIs
  <2> QED BY <2>1 DEF Same
<1>3. ASSUME NEW u \in Urls, o.page[u] # {}, ~The(o.page[u]).modified, u \notin o.signal
      PROVE  o.disk[u] = {The(o.page[u]).text}
  <2>1. CASE w.page[u] # {} \/ u \notin us
    <3>1. Same(o.page[u], w.page[u])
      BY <1>1, <2>1, OpenedIs
    <3> QED BY <1>2, <1>3, <3>1 DEF Same, Clean
  <2>2. CASE w.page[u] = {} /\ u \in us
    <3>1. Same(o.page[u], {[text |-> The(w.disk[u]), modified |-> FALSE]})
      BY <1>1, <2>2, OpenedIs
    <3>2. PICK e : e = [text |-> The(w.disk[u]), modified |-> FALSE]
      OBVIOUS
    <3>3. The(o.page[u]) = e
      BY <3>1, <3>2, TheOne DEF Same
    <3>4. The(o.page[u]).text = The(w.disk[u])
      BY <3>2, <3>3
    <3>5. w.disk[u] = {The(w.disk[u])}
      BY <2>2, DiskIs
    <3> QED BY <1>2, <3>4, <3>5
  <2> QED BY <2>1, <2>2
<1> QED BY <1>1, <1>3 DEF Clean

LEMMA EditClean ==
  ASSUME NEW w \in Worlds, NEW step \in Steps, step.kind = "edit", NEW redo \in BOOLEAN,
         Clean(w), Over(step.docs, w.disk), NEW r, r = Do(w, step, redo)
  PROVE  Clean(r.w) /\ Same(r.w.disk, w.disk) /\ Same(r.step, step)
<1>1. PICK docs, o : docs = step.docs /\ o = Opened(w, DOMAIN docs)
  OBVIOUS
<1>2. docs \in Docs /\ Same(r.step, step) /\ r.ok \in BOOLEAN /\ Same(r.w.disk, w.disk) /\ Same(r.w.signal, w.signal)
  BY <1>1, EditIs
<1>3. \A u \in Urls \ DOMAIN docs : Same(r.w.page[u], o.page[u])
  BY <1>1, EditIs
<1>4. ~r.ok => Same(r.w, o)
  BY <1>1, EditIs
<1>5. r.ok => \A u \in DOMAIN docs : Moves(o.page[u], r.w.page[u], docs[u], redo)
  BY <1>1, EditIs
<1>6. DOMAIN docs \subseteq Urls
  BY <1>2, DocsAre
<1>7. Clean(o)
  <2>1. \A u \in DOMAIN docs \cap Urls : w.disk[u] # {}
    BY <1>1 DEF Over
  <2> QED BY <1>1, <2>1, OpenedClean
<1>8. o.disk = w.disk /\ o.signal = w.signal
  <2>1. Same(o.disk, w.disk) /\ Same(o.signal, w.signal)
    BY <1>1, OpenedIs
  <2> QED BY <2>1 DEF Same
<1>9. CASE ~r.ok
  BY <1>2, <1>4, <1>7, <1>9 DEF Same
<1>10. CASE r.ok
  <2>1. r.w.disk = w.disk /\ r.w.signal = w.signal
    BY <1>2 DEF Same
  <2>2. ASSUME NEW u \in Urls, r.w.page[u] # {}, ~The(r.w.page[u]).modified, u \notin r.w.signal
        PROVE  r.w.disk[u] = {The(r.w.page[u]).text}
    <3>1. CASE r.w.page[u] = o.page[u]
      BY <1>7, <1>8, <2>1, <2>2, <3>1 DEF Clean
    <3>2. CASE r.w.page[u] # o.page[u]
      <4>1. u \in DOMAIN docs
        BY <1>3, <3>2 DEF Same
      <4>2. Moves(o.page[u], r.w.page[u], docs[u], redo)
        BY <1>5, <1>10, <4>1
      <4>3. PICK e : e = [text |-> To(docs[u], redo), modified |-> IF redo THEN TRUE ELSE docs[u].dirty]
        OBVIOUS
      <4>4. r.w.page[u] = {e}
        BY <3>2, <4>2, <4>3 DEF Moves
      <4>5. The(r.w.page[u]) = e
        BY <4>4, TheOne
      <4>6. ~redo /\ ~docs[u].dirty
        BY <2>2, <4>3, <4>5
      <4>7. The(r.w.page[u]).text = docs[u].before
        BY <4>3, <4>5, <4>6 DEF To
      <4> QED BY <1>1, <2>1, <4>1, <4>6, <4>7 DEF Over
    <3> QED BY <3>1, <3>2
  <2> QED BY <1>2, <2>2 DEF Clean
<1> QED BY <1>2, <1>9, <1>10

(* A file is taken away or put there: it was {} before or is reported. *)
LEMMA MovedClean ==
  ASSUME NEW w \in Worlds, NEW w2, Clean(w), w2.page = w.page, w.signal \subseteq w2.signal,
         \A u \in Urls : \/ w2.disk[u] = w.disk[u] \/ w.disk[u] = {}
                         \/ u \in w2.signal \/ w.page[u] = {}
  PROVE  Clean(w2)
<1> SUFFICES ASSUME NEW u \in Urls, w2.page[u] # {}, ~The(w2.page[u]).modified, u \notin w2.signal
             PROVE  w2.disk[u] = {The(w2.page[u]).text}
  BY DEF Clean
<1>1. w.disk[u] = {The(w.page[u]).text}
  BY DEF Clean
<1> QED BY <1>1

LEMMA TrashClean ==
  ASSUME NEW w \in Worlds, NEW step \in Steps, step.kind # "edit", Clean(w), NEW r, r = Trash(w, step),
         w.disk[step.url] # {}
  PROVE  /\ Clean(r.w) /\ r.ok /\ Same(r.w.disk, [w.disk EXCEPT ![step.url] = {}])
         /\ SameFile(r.step, step) /\ Same(r.step.trash, w.disk[step.url])
<1>1. /\ SameFile(r.step, step) /\ r.ok /\ Same(r.w.page, w.page)
      /\ Same(r.w.disk, [w.disk EXCEPT ![step.url] = {}])
      /\ Same(r.w.signal, Reported(w, step.url)) /\ Same(r.step.trash, w.disk[step.url])
  BY TrashIs
<1>2. PICK w2, u : w2 = r.w /\ u = step.url
  OBVIOUS
<1>3. u \in Urls /\ w.disk \in [Urls -> Maybe(Texts)]
  BY <1>2, StepIs DEF Worlds
<1>4. w2.page = w.page /\ w2.disk = [w.disk EXCEPT ![u] = {}] /\ w2.signal = Reported(w, u)
  BY <1>1, <1>2 DEF Same
<1>5. w.signal \subseteq w2.signal /\ (u \in w2.signal \/ w.page[u] = {})
  BY <1>4 DEF Reported
<1>6. \A v \in Urls : v # u => w2.disk[v] = w.disk[v]
  BY <1>3, <1>4
<1>7. Clean(w2)
  BY <1>4, <1>5, <1>6, MovedClean
<1> QED BY <1>1, <1>2, <1>7

LEMMA RestoreClean ==
  ASSUME NEW w \in Worlds, NEW step \in Steps, step.kind # "edit", Clean(w), NEW r, r = Restore(w, step),
         w.disk[step.url] = {}, step.trash # {}
  PROVE  Clean(r.w) /\ r.ok /\ Same(r.w.disk, [w.disk EXCEPT ![step.url] = step.trash]) /\ Same(r.step, step)
<1>1. /\ Same(r.step, step) /\ r.ok /\ Same(r.w.page, w.page) /\ Same(r.w.signal, w.signal)
      /\ Same(r.w.disk, [w.disk EXCEPT ![step.url] = step.trash])
  BY RestoreIs
<1>2. PICK w2, u : w2 = r.w /\ u = step.url
  OBVIOUS
<1>3. u \in Urls /\ w.disk \in [Urls -> Maybe(Texts)]
  BY <1>2, StepIs DEF Worlds
<1>4. w2.page = w.page /\ w2.disk = [w.disk EXCEPT ![u] = step.trash] /\ w2.signal = w.signal
  BY <1>1, <1>2 DEF Same
<1>5. \A v \in Urls : w2.disk[v] = w.disk[v] \/ w.disk[v] = {}
  BY <1>2, <1>3, <1>4
<1>6. Clean(w2)
  BY <1>4, <1>5, MovedClean
<1> QED BY <1>1, <1>2, <1>6

LEMMA RenameClean ==
  ASSUME NEW w \in Worlds, NEW from \in Urls, NEW to \in Urls, NEW step \in Steps,
         Clean(w), NEW r, r = Rename(w, from, to, step), w.disk[from] # {}, w.disk[to] = {}
  PROVE  /\ Clean(r.w) /\ r.ok /\ Same(r.w.disk, [w.disk EXCEPT ![from] = {}, ![to] = w.disk[from]])
         /\ Same(r.step, step)
<1>1. /\ Same(r.step, step) /\ r.ok /\ Same(r.w.page, w.page) /\ Same(r.w.signal, Reported(w, from))
      /\ Same(r.w.disk, [w.disk EXCEPT ![from] = {}, ![to] = w.disk[from]])
  BY RenameIs
<1>2. PICK w2 : w2 = r.w
  OBVIOUS
<1>3. w.disk \in [Urls -> Maybe(Texts)]
  BY DEF Worlds
<1>4. w2.page = w.page /\ w2.disk = [w.disk EXCEPT ![from] = {}, ![to] = w.disk[from]]
      /\ w2.signal = Reported(w, from)
  BY <1>1, <1>2 DEF Same
<1>5. w.signal \subseteq w2.signal /\ (from \in w2.signal \/ w.page[from] = {})
  BY <1>4 DEF Reported
<1>6. \A v \in Urls : v = from \/ w2.disk[v] = w.disk[v] \/ w.disk[v] = {}
  BY <1>3, <1>4
<1>7. Clean(w2)
  BY <1>4, <1>5, <1>6, MovedClean
<1> QED BY <1>1, <1>2, <1>7

LEMMA CreateClean ==
  ASSUME NEW w \in Worlds, NEW step \in Steps, step.kind # "edit", Clean(w), NEW r, r = Create(w, step),
         w.disk[step.url] = {}
  PROVE  /\ Clean(r.w) /\ r.ok /\ Same(r.step, step) /\ Same(r.w.signal, w.signal)
         /\ Same(r.w.disk, [w.disk EXCEPT ![step.url] = IF step.trash = {} THEN {{}} ELSE step.trash])
<1>1. /\ r.w \in Worlds /\ Same(r.step, step) /\ r.ok /\ Same(r.w.signal, w.signal)
      /\ Same(r.w.disk, [w.disk EXCEPT ![step.url] = IF step.trash = {} THEN {{}} ELSE step.trash])
  BY CreateIs
<1>2. ASSUME NEW u \in Urls
      PROVE  /\ w.page[u] # {} \/ u # step.url => Same(r.w.page[u], w.page[u])
             /\ w.page[u] = {} /\ u = step.url =>
                  Same(r.w.page[u], {[text |-> The(r.w.disk[u]), modified |-> FALSE]})
  BY <1>1, CreateIs
<1>3. PICK w2, at, new : /\ w2 = r.w /\ at = step.url
                         /\ new = IF step.trash = {} THEN {{}} ELSE step.trash
  OBVIOUS
<1>4. at \in Urls /\ new # {} /\ w.disk \in [Urls -> Maybe(Texts)]
  BY <1>3, StepIs DEF Worlds
<1>5. w2.disk = [w.disk EXCEPT ![at] = new] /\ w2.signal = w.signal /\ w2 \in Worlds
  BY <1>1, <1>3 DEF Same
<1>6. ASSUME NEW u \in Urls, w2.page[u] # {}, ~The(w2.page[u]).modified, u \notin w2.signal
      PROVE  w2.disk[u] = {The(w2.page[u]).text}
  <2>1. CASE w.page[u] # {} \/ u # at
    <3>1. w2.page[u] = w.page[u]
      BY <1>2, <1>3, <2>1 DEF Same
    <3>2. w.disk[u] = {The(w.page[u]).text}
      BY <1>5, <1>6, <3>1 DEF Clean
    <3>3. u # at
      BY <1>3, <3>2
    <3> QED BY <1>4, <1>5, <3>1, <3>2, <3>3
  <2>2. CASE w.page[u] = {} /\ u = at
    <3>1. w2.page[u] = {[text |-> The(w2.disk[u]), modified |-> FALSE]}
      BY <1>2, <1>3, <2>2 DEF Same
    <3>2. PICK e : e = [text |-> The(w2.disk[u]), modified |-> FALSE]
      OBVIOUS
    <3>3. The(w2.page[u]) = e
      BY <3>1, <3>2, TheOne
    <3>4. The(w2.page[u]).text = The(w2.disk[u])
      BY <3>2, <3>3
    <3>5. w2.disk[u] # {}
      BY <1>4, <1>5, <2>2
    <3> QED BY <1>5, <3>4, <3>5, DiskIs
  <2> QED BY <2>1, <2>2
<1>7. Clean(w2)
  BY <1>6 DEF Clean
<1> QED BY <1>1, <1>3, <1>7

(* A step goes where it leads, or, when an edit is refused, stays.         *)
Went(step, d, e, redo, r) ==
  /\ Clean(r.w) /\ Leads(r.step, d, e) /\ (r.ok \/ d = e)
  /\ r.w.disk = IF r.ok = redo THEN e ELSE d

LEMMA DoLeads ==
  ASSUME NEW w \in Worlds, NEW step \in Steps, NEW redo \in BOOLEAN, NEW d \in Files, NEW e \in Files,
         Leads(step, d, e), Clean(w), w.disk = IF redo THEN d ELSE e, NEW r, r = Do(w, step, redo)
  PROVE  Went(step, d, e, redo, r)
<1>1. CASE step.kind = "edit"
  <2>1. e = d /\ Over(step.docs, w.disk)
    BY <1>1 DEF Leads
  <2>2. Clean(r.w) /\ Same(r.w.disk, w.disk) /\ Same(r.step, step)
    BY <1>1, <2>1, EditClean
  <2> QED BY <2>1, <2>2 DEF Went, Same
<1>2. CASE step.kind = "create" /\ redo
  <2>1. /\ d[step.url] = {} /\ e = [d EXCEPT ![step.url] = {{}}] /\ step.trash \in {{}, {{}}}
        /\ r = Create(w, step) /\ w.disk = d /\ step.kind # "edit"
    BY <1>2 DEF Leads, Do
  <2>2. /\ Clean(r.w) /\ r.ok /\ Same(r.step, step)
        /\ Same(r.w.disk, [w.disk EXCEPT ![step.url] = IF step.trash = {} THEN {{}} ELSE step.trash])
    BY <2>1, CreateClean
  <2>3. (IF step.trash = {} THEN {{}} ELSE step.trash) = {{}}
    BY <2>1
  <2>4. r.w.disk = e /\ r.step = step
    BY ONLY <2>1, <2>2, <2>3 DEF Same
  <2>5. r.ok = TRUE
    BY <2>2, DoIs
  <2> QED BY <1>2, <2>2, <2>4, <2>5 DEF Went
<1>3. CASE step.kind = "create" /\ ~redo
  <2>1. /\ d[step.url] = {} /\ e = [d EXCEPT ![step.url] = {{}}]
        /\ r = Trash(w, step) /\ w.disk = e /\ step.kind # "edit" /\ step.url \in Urls
    BY <1>3, StepIs DEF Leads, Do
  <2>2. e[step.url] = {{}} /\ [e EXCEPT ![step.url] = {}] = d
    BY <2>1 DEF Files
  <2>3. /\ Clean(r.w) /\ r.ok /\ Same(r.w.disk, [w.disk EXCEPT ![step.url] = {}])
        /\ SameFile(r.step, step) /\ Same(r.step.trash, w.disk[step.url])
    BY <2>1, <2>2, TrashClean
  <2>4. r.w.disk = d
    BY ONLY <2>1, <2>2, <2>3 DEF Same
  <2>5. r.step.kind = "create" /\ r.step.url = step.url /\ r.step.trash = {{}}
    BY ONLY <1>3, <2>1, <2>2, <2>3 DEF Same, SameFile
  <2>6. Leads(r.step, d, e)
    BY ONLY <2>1, <2>5 DEF Leads
  <2>7. r.ok = TRUE
    BY <2>3, DoIs
  <2> QED BY <1>3, <2>3, <2>4, <2>6, <2>7 DEF Went
<1>4. CASE step.kind = "delete" /\ redo
  <2>1. /\ d[step.url] # {} /\ e = [d EXCEPT ![step.url] = {}] /\ step.trash = d[step.url]
        /\ r = Trash(w, step) /\ w.disk = d /\ step.kind # "edit"
    BY <1>4 DEF Leads, Do
  <2>2. /\ Clean(r.w) /\ r.ok /\ Same(r.w.disk, [w.disk EXCEPT ![step.url] = {}])
        /\ SameFile(r.step, step) /\ Same(r.step.trash, w.disk[step.url])
    BY <2>1, TrashClean
  <2>3. r.w.disk = e
    BY ONLY <2>1, <2>2 DEF Same
  <2>4. r.step.kind = "delete" /\ r.step.url = step.url /\ r.step.trash = d[step.url]
    BY ONLY <1>4, <2>1, <2>2 DEF Same, SameFile
  <2>5. Leads(r.step, d, e)
    BY ONLY <2>1, <2>4 DEF Leads
  <2>6. r.ok = TRUE
    BY <2>2, DoIs
  <2> QED BY <1>4, <2>2, <2>3, <2>5, <2>6 DEF Went
<1>5. CASE step.kind = "delete" /\ ~redo
  <2>1. /\ d[step.url] # {} /\ e = [d EXCEPT ![step.url] = {}] /\ step.trash = d[step.url]
        /\ r = Restore(w, step) /\ w.disk = e /\ step.kind # "edit" /\ step.url \in Urls
    BY <1>5, StepIs DEF Leads, Do
  <2>2. e[step.url] = {} /\ [e EXCEPT ![step.url] = d[step.url]] = d
    BY <2>1 DEF Files
  <2>3. Clean(r.w) /\ r.ok /\ Same(r.w.disk, [w.disk EXCEPT ![step.url] = step.trash]) /\ Same(r.step, step)
    BY <2>1, <2>2, RestoreClean
  <2>4. r.w.disk = d /\ r.step = step
    BY ONLY <2>1, <2>2, <2>3 DEF Same
  <2>5. r.ok = TRUE
    BY <2>3, DoIs
  <2> QED BY <1>5, <2>3, <2>4, <2>5 DEF Went
<1>6. CASE step.kind = "rename" /\ redo
  <2>1. /\ step.url # step.to /\ d[step.url] # {} /\ d[step.to] = {}
        /\ e = [d EXCEPT ![step.url] = {}, ![step.to] = d[step.url]]
        /\ r = Rename(w, step.url, step.to, step) /\ w.disk = d
        /\ step.url \in Urls /\ step.to \in Urls
    BY <1>6, StepIs DEF Leads, Do
  <2>2. PICK from \in Urls, to \in Urls : from = step.url /\ to = step.to
    BY <2>1
  <2>3. /\ Clean(r.w) /\ r.ok /\ Same(r.step, step)
        /\ Same(r.w.disk, [w.disk EXCEPT ![from] = {}, ![to] = w.disk[from]])
    <3>1. r = Rename(w, from, to, step) /\ w.disk[from] # {} /\ w.disk[to] = {}
      BY <2>1, <2>2
    <3> QED BY ONLY <3>1, Clean(w), w \in Worlds, step \in Steps, from \in Urls, to \in Urls, RenameClean
  <2>4. r.w.disk = e /\ r.step = step
    BY ONLY <2>1, <2>2, <2>3 DEF Same
  <2>5. r.ok = TRUE
    BY <2>3, DoIs
  <2> QED BY <1>6, <2>3, <2>4, <2>5 DEF Went
<1>7. CASE step.kind = "rename" /\ ~redo
  <2>1. /\ step.url # step.to /\ d[step.url] # {} /\ d[step.to] = {}
        /\ e = [d EXCEPT ![step.url] = {}, ![step.to] = d[step.url]]
        /\ r = Rename(w, step.to, step.url, step) /\ w.disk = e
        /\ step.url \in Urls /\ step.to \in Urls
    BY <1>7, StepIs DEF Leads, Do
  <2>2. PICK from \in Urls, to \in Urls : from = step.url /\ to = step.to
    BY <2>1
  <2>3. e[to] = d[from] /\ e[from] = {} /\ [e EXCEPT ![to] = {}, ![from] = d[from]] = d
    BY ONLY <2>1, <2>2, d \in Files DEF Files
  <2>4. /\ Clean(r.w) /\ r.ok /\ Same(r.step, step)
        /\ Same(r.w.disk, [w.disk EXCEPT ![to] = {}, ![from] = w.disk[to]])
    <3>1. r = Rename(w, to, from, step) /\ w.disk[to] # {} /\ w.disk[from] = {}
      BY <2>1, <2>2, <2>3
    <3> QED BY ONLY <3>1, Clean(w), w \in Worlds, step \in Steps, from \in Urls, to \in Urls, RenameClean
  <2>5. r.w.disk = d /\ r.step = step
    BY ONLY <2>1, <2>3, <2>4 DEF Same
  <2>6. r.ok = TRUE
    BY <2>4, DoIs
  <2> QED BY <1>7, <2>4, <2>5, <2>6 DEF Went
<1>8. step.kind \in {"edit", "create", "rename", "delete"}
  BY StepIs
<1> QED BY <1>1, <1>2, <1>3, <1>4, <1>5, <1>6, <1>7, <1>8

(* The files before, between and after the steps. *)
Path(steps, P) == /\ P \in [0 .. Len(steps) -> Files]
                  /\ \A i \in 1 .. Len(steps) : Leads(steps[i], P[i - 1], P[i])

LEMMA PathKept ==
  ASSUME NEW steps \in Seq(Steps), NEW P, Path(steps, P), NEW i \in 1 .. Len(steps), NEW step,
         Leads(step, P[i - 1], P[i])
  PROVE  Path([steps EXCEPT ![i] = step], P)
<1>1. PICK new : new = [steps EXCEPT ![i] = step]
  OBVIOUS
<1>2. Len(new) = Len(steps) /\ \A n \in 1 .. Len(steps) : new[n] = IF n = i THEN step ELSE steps[n]
  BY <1>1
<1>3. ASSUME NEW n \in 1 .. Len(steps) PROVE Leads(new[n], P[n - 1], P[n])
  <2>1. CASE n = i
    BY <1>2, <2>1
  <2>2. CASE n # i
    BY <1>2, <2>2 DEF Path
  <2> QED BY <2>1, <2>2
<1> QED BY <1>1, <1>2, <1>3 DEF Path

(* Where a run is when k steps are done. *)
Pos(n, redo, k) == IF redo THEN k ELSE n - k

(* What a run keeps of the files. *)
Walks(n, P, redo, run) ==
  /\ run \in Runs /\ Len(run.steps) = n /\ Path(run.steps, P) /\ Clean(run.w)

WalkedTo(n, P, redo, k, run, new) ==
  /\ Walks(n, P, redo, new)
  /\ new.w.disk = P[Pos(n, redo, IF new.ok THEN k ELSE k - 1)]
  /\ new.done = IF new.ok THEN run.done + 1 ELSE run.done

LEMMA WalksTo ==
  ASSUME NEW n \in Nat, NEW P \in [0 .. n -> Files], NEW redo \in BOOLEAN, NEW run, Walks(n, P, redo, run),
         NEW k \in 1 .. n, run.ok, run.w.disk = P[Pos(n, redo, k - 1)], NEW i, i = IF redo THEN k ELSE n + 1 - k,
         NEW new, new = Tried(run, i, redo)
  PROVE  WalkedTo(n, P, redo, k, run, new)
<1>1. i \in 1 .. n /\ Pos(n, redo, k - 1) = (IF redo THEN i - 1 ELSE i)
      /\ Pos(n, redo, k) = (IF redo THEN i ELSE i - 1) /\ i - 1 \in 0 .. n /\ i \in 0 .. n
  BY DEF Pos
<1>2. PICK d, e, step, r : d = P[i - 1] /\ e = P[i] /\ step = run.steps[i] /\ r = Do(run.w, step, redo)
  OBVIOUS
<1>3. d \in Files /\ e \in Files /\ run.w.disk = IF redo THEN d ELSE e
  BY <1>1, <1>2
<1>4. run \in Runs /\ run.w \in Worlds /\ run.steps \in Seq(Steps) /\ step \in Steps /\ i \in 1 .. Len(run.steps)
      /\ Clean(run.w) /\ Path(run.steps, P) /\ Leads(step, d, e)
  BY <1>1, <1>2 DEF Walks, Runs, Path
<1>5. Went(step, d, e, redo, r)
  BY <1>2, <1>3, <1>4, DoLeads
<1>6. TriedTo(run, i, r, new)
  BY <1>2, <1>4, TriedIs
<1>7. /\ new \in Runs /\ Len(new.steps) = Len(run.steps) /\ new.ok = r.ok /\ new.w = r.w
      /\ new.steps = [run.steps EXCEPT ![i] = r.step] /\ new.done = IF r.ok THEN run.done + 1 ELSE run.done
  BY ONLY <1>6, run.ok DEF TriedTo
<1>8. Path(new.steps, P)
  <2>1. Leads(r.step, P[i - 1], P[i])
    BY <1>2, <1>5 DEF Went
  <2> QED BY <1>4, <1>7, <2>1, PathKept
<1>9. Walks(n, P, redo, new)
  BY <1>5, <1>7, <1>8 DEF Walks, Went
<1>10. r.ok \in BOOLEAN
  BY <1>2, <1>4, DoIs
<1>11. new.w.disk = IF r.ok = redo THEN e ELSE d
  BY <1>5, <1>7 DEF Went
<1>12. CASE r.ok
  BY <1>1, <1>2, <1>7, <1>9, <1>11, <1>12 DEF WalkedTo
<1>13. CASE ~r.ok
  BY <1>1, <1>2, <1>7, <1>9, <1>10, <1>11, <1>13 DEF WalkedTo
<1> QED BY <1>12, <1>13

LEMMA WalksBackTo ==
  ASSUME NEW n \in Nat, NEW P \in [0 .. n -> Files], NEW redo \in BOOLEAN, NEW run, Walks(n, P, redo, run),
         NEW m \in 1 .. n, run.w.disk = P[Pos(n, redo, m)], NEW i, i = IF redo THEN m ELSE n + 1 - m,
         NEW new, new = GoneBack(run, i, redo)
  PROVE  /\ Walks(n, P, redo, new) /\ new.ok = run.ok
         /\ new.w.disk = P[Pos(n, redo, m - 1)]
<1>1. i \in 1 .. n /\ Pos(n, redo, m - 1) = (IF redo THEN i - 1 ELSE i)
      /\ Pos(n, redo, m) = (IF redo THEN i ELSE i - 1) /\ i - 1 \in 0 .. n /\ i \in 0 .. n
  BY DEF Pos
<1>2. PICK back \in BOOLEAN : back = ~redo
  OBVIOUS
<1>3. PICK d, e, step, r : d = P[i - 1] /\ e = P[i] /\ step = run.steps[i] /\ r = Do(run.w, step, back)
  OBVIOUS
<1>4. d \in Files /\ e \in Files /\ run.w.disk = IF back THEN d ELSE e
  BY <1>1, <1>2, <1>3
<1>5. run \in Runs /\ run.w \in Worlds /\ run.steps \in Seq(Steps) /\ step \in Steps /\ i \in 1 .. Len(run.steps)
      /\ Clean(run.w) /\ Path(run.steps, P) /\ Leads(step, d, e)
  BY <1>1, <1>3 DEF Walks, Runs, Path
<1>6. Went(step, d, e, back, r)
  BY <1>2, <1>3, <1>4, <1>5, DoLeads
<1>7. BackTo(run, i, r, new)
  BY <1>2, <1>3, <1>5, GoneBackIs
<1>8. /\ new \in Runs /\ Len(new.steps) = Len(run.steps) /\ new.ok = run.ok /\ new.w = r.w
      /\ new.steps = [run.steps EXCEPT ![i] = r.step]
  BY ONLY <1>7 DEF BackTo
<1>9. Path(new.steps, P)
  <2>1. Leads(r.step, P[i - 1], P[i])
    BY <1>3, <1>6 DEF Went
  <2> QED BY <1>5, <1>8, <2>1, PathKept
<1>10. Walks(n, P, redo, new)
  BY <1>6, <1>8, <1>9 DEF Walks, Went
<1>11. r.w.disk = IF back THEN e ELSE d
  <2>1. CASE r.ok
    <3>1. r.ok = TRUE
      BY <1>3, <1>5, <2>1, DoIs
    <3> QED BY <1>6, <3>1 DEF Went
  <2>2. CASE ~r.ok
    BY <1>6, <2>2 DEF Went
  <2> QED BY <2>1, <2>2
<1> QED BY <1>1, <1>2, <1>3, <1>8, <1>10, <1>11

LEMMA RanClean ==
  ASSUME NEW w \in Worlds, NEW steps \in Seq(Steps), NEW redo \in BOOLEAN, NEW P, Path(steps, P), Clean(w),
         w.disk = P[Pos(Len(steps), redo, 0)], NEW ran, ran = Ran(w, steps, redo)
  PROVE  /\ Walks(Len(steps), P, redo, ran)
         /\ ran.w.disk = P[Pos(Len(steps), redo, IF ran.ok THEN Len(steps) ELSE 0)]
<1>1. PICK n : n = Len(steps)
  OBVIOUS
<1>2. n \in Nat /\ P \in [0 .. n -> Files]
  BY <1>1 DEF Path
<1> DEFINE J == [k \in Nat |-> {run \in Runs : /\ Walks(n, P, redo, run) /\ run.done <= k
                                               /\ run.ok => run.done = k
                                               /\ run.w.disk = P[Pos(n, redo, run.done)]}]
           B == [k \in Nat |-> {run \in Runs : /\ Walks(n, P, redo, run) /\ ~run.ok
                                               /\ run.w.disk = P[Pos(n, redo, k)]}]
<1>3. Begun(w, steps) \in J[0]
  <2>1. PICK run : run = Begun(w, steps)
    OBVIOUS
  <2>2. run = [ok |-> TRUE, w |-> w, steps |-> steps, done |-> 0, torn |-> FALSE]
    BY <2>1 DEF Begun
  <2>3. run.w = w /\ run.steps = steps /\ run.done = 0
    BY ONLY <2>2
  <2>4. run \in Runs
    BY <2>1, BegunIs
  <2>5. Walks(n, P, redo, run)
    BY <1>1, <2>3, <2>4 DEF Walks
  <2> QED BY <1>1, <2>1, <2>3, <2>4, <2>5
<1>4. ASSUME NEW k \in 1 .. n, NEW run \in J[k - 1]
      PROVE  Tried(run, Turn(steps, redo, k), redo) \in J[k]
  <2>1. PICK i, new : i = Turn(steps, redo, k) /\ new = Tried(run, i, redo)
    OBVIOUS
  <2>2. i \in 1 .. n /\ k - 1 \in Nat /\ k \in Nat /\ i = IF redo THEN k ELSE n + 1 - k
    BY <1>1, <1>2, <2>1, TurnIs DEF Turn
  <2>3. /\ run \in Runs /\ Walks(n, P, redo, run) /\ run.done <= k - 1 /\ run.done \in Nat
        /\ run.ok => run.done = k - 1
        /\ run.w.disk = P[Pos(n, redo, run.done)] /\ Len(run.steps) = n
    BY <2>2 DEF Runs, Walks
  <2>4. CASE run.ok
    <3>1. run.done = k - 1 /\ run.w.disk = P[Pos(n, redo, k - 1)]
      BY <2>3, <2>4
    <3>8. WalkedTo(n, P, redo, k, run, new)
      <4> HIDE DEF J, B
      <4> QED BY <1>2, <2>1, <2>2, <2>3, <2>4, <3>1, WalksTo
    <3>2. /\ Walks(n, P, redo, new)
          /\ new.w.disk = P[Pos(n, redo, IF new.ok THEN k ELSE k - 1)]
          /\ new.done = IF new.ok THEN run.done + 1 ELSE run.done
      BY <3>8 DEF WalkedTo
    <3>3. new \in Runs
      BY <3>2 DEF Walks
    <3>4. new.done = (IF new.ok THEN k ELSE k - 1)
      BY <2>2, <3>1, <3>2
    <3>5. new.w.disk = P[Pos(n, redo, new.done)]
      BY <3>2, <3>4
    <3>6. new.done <= k /\ (new.ok => new.done = k)
      BY <2>2, <3>4
    <3>7. new \in J[k]
      BY <2>2, <3>2, <3>3, <3>5, <3>6
    <3> QED BY <2>1, <3>7
  <2>5. CASE ~run.ok
    <3>1. new = run
      BY <2>1, <2>5 DEF Tried
    <3> QED BY <2>1, <2>2, <2>3, <2>5, <3>1
  <2> QED BY <2>4, <2>5
<1>5. ASSUME NEW run \in J[n]
      PROVE  run.done \in 0 .. n /\ (~run.ok => run \in B[run.done])
  <2>1. run \in Runs /\ Walks(n, P, redo, run) /\ run.done <= n /\ run.done \in Nat
        /\ run.w.disk = P[Pos(n, redo, run.done)]
    BY <1>2 DEF Runs
  <2> QED BY <1>2, <2>1
<1>6. ASSUME NEW m \in 1 .. n, NEW run \in B[m]
      PROVE  GoneBack(run, Turn(steps, redo, m), redo) \in B[m - 1]
  <2>1. PICK i, new : i = Turn(steps, redo, m) /\ new = GoneBack(run, i, redo)
    OBVIOUS
  <2>2. i \in 1 .. n /\ m - 1 \in Nat /\ m \in Nat /\ i = IF redo THEN m ELSE n + 1 - m
    BY <1>1, <1>2, <2>1, TurnIs DEF Turn
  <2>3. run \in Runs /\ Walks(n, P, redo, run) /\ ~run.ok /\ run.w.disk = P[Pos(n, redo, m)]
    BY <2>2
  <2>4. Walks(n, P, redo, new) /\ new.ok = run.ok /\ new.w.disk = P[Pos(n, redo, m - 1)]
    BY <1>2, <2>1, <2>2, <2>3, WalksBackTo
  <2>5. new \in Runs
    BY <2>4 DEF Walks
  <2> QED BY <2>1, <2>2, <2>3, <2>4, <2>5
<1>7. ran \in B[0] \/ (ran \in J[n] /\ ran.ok)
  <2>1. \/ Ran(w, steps, redo) \in B[0]
        \/ Ran(w, steps, redo) \in J[n] /\ Ran(w, steps, redo).ok
    <3> HIDE DEF J, B
    <3> QED BY <1>1, <1>2, <1>3, <1>4, <1>5, <1>6, RanIs
  <2> QED BY <2>1
<1>8. CASE ran \in B[0]
  <2>1. Walks(n, P, redo, ran) /\ ~ran.ok /\ ran.w.disk = P[Pos(n, redo, 0)]
    BY <1>8
  <2> QED BY <1>1, <2>1
<1>9. CASE ran \in J[n] /\ ran.ok
  BY <1>1, <1>2, <1>9
<1> QED BY <1>7, <1>8, <1>9

(***************************************************************************)
(* The invariant.  The files are at one end of a path along the steps; the *)
(* documents of the transaction are over the files there are; during the   *)
(* turn only files that it has taken away wait for the watcher, and stay   *)
(* away.                                                                   *)
(***************************************************************************)

OnPath(steps, applied, d) ==
  \E P : Path(steps, P) /\ d = P[IF applied THEN Len(steps) ELSE 0]

FreedOf(steps) ==
  {steps[n].url : n \in {k \in DOMAIN steps : steps[k].kind \in {"rename", "delete"}}}

SavedAt(w, g, docs, st) ==
  /\ Clean(w) /\ OnPath(g.steps, g.applied, w.disk) /\ Over(docs, w.disk)
  /\ st # "open" => docs = << >>
  /\ st \in {"before", "open"} => /\ g.applied /\ w.signal \subseteq FreedOf(g.steps)
                                  /\ \A u \in FreedOf(g.steps) : w.disk[u] = {}
  /\ st = "before" => /\ FreedOf(g.steps) = {}
                      /\ \A u \in Urls : w.page[u] # {} => w.disk[u] # {}

SavedHere == SavedAt(World, group, transaction, stage)

LEMMA BecomesIs ==
  ASSUME NEW w \in Worlds, Becomes(w)
  PROVE  Same(World', w)
<1>1. w = [disk |-> w.disk, page |-> w.page, signal |-> w.signal]
  BY DEF Worlds
<1>2. World' = [disk |-> w.disk, page |-> w.page, signal |-> w.signal]
  BY DEF World, Becomes
<1> QED BY ONLY <1>1, <1>2 DEF Same

LEMMA FreedMore ==
  ASSUME NEW steps \in Seq(Steps), NEW step \in Steps, NEW new, new = steps \o <<step>>
  PROVE  FreedOf(new) = FreedOf(steps) \cup (IF step.kind \in {"rename", "delete"} THEN {step.url} ELSE {})
<1>1. PICK n : n = Len(steps)
  OBVIOUS
<1>2. /\ n \in Nat /\ DOMAIN steps = 1 .. n /\ DOMAIN new = 1 .. n + 1 /\ new[n + 1] = step
      /\ \A k \in 1 .. n : new[k] = steps[k]
  BY <1>1
<1>3. ASSUME NEW u, u \in FreedOf(new)
      PROVE  u \in FreedOf(steps) \cup (IF step.kind \in {"rename", "delete"} THEN {step.url} ELSE {})
  <2>1. PICK k \in 1 .. n + 1 : new[k].kind \in {"rename", "delete"} /\ u = new[k].url
    BY <1>2, <1>3 DEF FreedOf
  <2>2. CASE k = n + 1
    BY <1>2, <2>1, <2>2
  <2>3. CASE k \in 1 .. n
    BY <1>2, <2>1, <2>3 DEF FreedOf
  <2> QED BY <1>2, <2>1, <2>2, <2>3
<1>4. ASSUME NEW u \in FreedOf(steps) PROVE u \in FreedOf(new)
  <2>1. PICK k \in 1 .. n : steps[k].kind \in {"rename", "delete"} /\ u = steps[k].url
    BY <1>2 DEF FreedOf
  <2> QED BY <1>2, <2>1 DEF FreedOf
<1>5. ASSUME step.kind \in {"rename", "delete"} PROVE step.url \in FreedOf(new)
  <2>1. n + 1 \in DOMAIN new
    BY <1>2
  <2> QED BY <1>2, <1>5, <2>1 DEF FreedOf
<1> QED BY <1>3, <1>4, <1>5

LEMMA PathMore ==
  ASSUME NEW steps \in Seq(Steps), NEW d \in Files, OnPath(steps, TRUE, d), NEW step \in Steps,
         NEW e \in Files, Leads(step, d, e), NEW new, new = steps \o <<step>>
  PROVE  new \in Seq(Steps) /\ OnPath(new, TRUE, e)
<1>1. PICK n : n = Len(steps)
  OBVIOUS
<1>2. PICK P : Path(steps, P) /\ d = P[n]
  BY <1>1 DEF OnPath
<1>3. /\ n \in Nat /\ new \in Seq(Steps) /\ Len(new) = n + 1 /\ new[n + 1] = step
      /\ \A k \in 1 .. n : new[k] = steps[k]
  BY <1>1
<1>4. PICK Q : Q = [k \in 0 .. n + 1 |-> IF k = n + 1 THEN e ELSE P[k]]
  OBVIOUS
<1>5. P \in [0 .. n -> Files] /\ \A k \in 1 .. n : Leads(steps[k], P[k - 1], P[k])
  BY <1>1, <1>2 DEF Path
<1>6. Q \in [0 .. n + 1 -> Files] /\ Q[n + 1] = e /\ \A k \in 0 .. n : Q[k] = P[k]
  <2>1. \A k \in 0 .. n + 1 : (IF k = n + 1 THEN e ELSE P[k]) \in Files
    BY <1>3, <1>5
  <2> QED BY <1>3, <1>4, <2>1
<1>7. ASSUME NEW k \in 1 .. n + 1 PROVE Leads(new[k], Q[k - 1], Q[k])
  <2>1. CASE k = n + 1
    BY <1>2, <1>3, <1>6, <2>1
  <2>2. CASE k \in 1 .. n
    <3>1. k - 1 \in 0 .. n /\ k \in 0 .. n
      BY <1>3, <2>2
    <3> QED BY <1>3, <1>5, <1>6, <2>2, <3>1
  <2> QED BY <1>3, <2>1, <2>2
<1>8. Path(new, Q)
  BY <1>3, <1>6, <1>7 DEF Path
<1> QED BY <1>3, <1>6, <1>8 DEF OnPath

LEMMA OverJoined ==
  ASSUME NEW docs \in Docs, NEW w \in Worlds, NEW w2 \in Worlds, Over(docs, w2.disk), Clean(w2),
         \A u \in Urls : w.page[u] = {} /\ w2.page[u] # {} => w2.disk[u] # {} /\ u \notin w2.signal
  PROVE  Over(Joined(docs, w, w2), w2.disk)
<1>1. PICK j : j = Joined(docs, w, w2)
  OBVIOUS
<1>2. j \in Docs
  BY <1>1, JoinedIs
<1>3. JoinedFrom(docs, w, w2, j)
  BY <1>1, JoinedIs
<1>4. ASSUME NEW u \in DOMAIN j PROVE w2.disk[u] # {} /\ (~j[u].dirty => w2.disk[u] = {j[u].before})
  <2>1. u \in Urls
    BY <1>2, DocsAre
  <2>2. CASE u \in DOMAIN docs /\ j[u] = docs[u]
    BY <2>2 DEF Over
  <2>3. CASE w.page[u] = {} /\ w2.page[u] # {} /\ j[u] = Recorded(w2, u)
    <3>1. j[u].before = The(w2.page[u]).text /\ j[u].dirty = The(w2.page[u]).modified
      BY <2>3 DEF Recorded
    <3> QED BY <2>1, <2>3, <3>1 DEF Clean
  <2> QED BY <1>3, <2>2, <2>3 DEF JoinedFrom
<1> QED BY <1>1, <1>4 DEF Over

LEMMA LoadedSaved ==
  ASSUME TypeOK, SavedHere, NEW us, Loaded(us), \A u \in us \cap Urls : disk[u] # {}, UNCHANGED <<stage, group>>
  PROVE  SavedHere'
<1>1. World \in Worlds /\ transaction \in Docs /\ World.disk = disk
  BY TypesAre, WorldsTypes
<1>2. PICK w, open : w = World /\ open = Opened(w, us)
  OBVIOUS
<1>3. open \in Worlds /\ open.disk = w.disk /\ open.signal = w.signal
  <2>1. open \in Worlds /\ Same(open.disk, w.disk) /\ Same(open.signal, w.signal)
    BY <1>1, <1>2, OpenedIs
  <2> QED BY <2>1 DEF Same
<1>4. \A u \in us \cap Urls : w.disk[u] # {}
  BY <1>1, <1>2
<1>5. SavedAt(w, group, transaction, stage) /\ Clean(w) /\ Over(transaction, w.disk)
  BY <1>2 DEF SavedHere, SavedAt
<1>6. Clean(open)
  BY <1>1, <1>2, <1>4, <1>5, OpenedClean
<1>7. World' = open /\ transaction' = IF stage = "open" THEN Joined(transaction, w, open) ELSE transaction
  <2>1. Same(World', open)
    BY <1>2, <1>3, BecomesIs DEF Loaded
  <2> QED BY <1>2, <2>1 DEF Loaded, Same
<1>8. ASSUME NEW u \in Urls, w.page[u] = {}, open.page[u] # {} PROVE w.disk[u] # {}
  <2>1. u \in us
    <3>1. u \notin us => Same(open.page[u], w.page[u])
      BY <1>1, <1>2, OpenedIs
    <3> QED BY <1>8, <3>1 DEF Same
  <2> QED BY <1>4, <2>1
<1>9. Over(transaction', open.disk)
  <2>1. CASE stage = "open"
    <3>1. \A u \in Urls : w.page[u] = {} /\ open.page[u] # {} => open.disk[u] # {} /\ u \notin open.signal
      BY <1>3, <1>5, <1>8, <2>1 DEF SavedAt
    <3>2. Over(transaction, open.disk)
      BY <1>3, <1>5
    <3> QED BY <1>1, <1>2, <1>3, <1>6, <1>7, <2>1, <3>1, <3>2, OverJoined
  <2>2. CASE stage # "open"
    BY <1>3, <1>5, <1>7, <2>2
  <2> QED BY <2>1, <2>2
<1>10. SavedAt(open, group, transaction', stage)
  BY <1>3, <1>5, <1>6, <1>7, <1>8, <1>9 DEF SavedAt
<1> QED BY <1>7, <1>10 DEF SavedHere

LEMMA BeginSaved == ASSUME TypeOK, SavedHere, Begin PROVE SavedHere'
<1>1. World \in Worlds /\ World.disk = disk /\ World.page = page /\ World.signal = signal
  BY TypesAre, WorldsTypes
<1>2. /\ stage = "before" /\ stage' = "open" /\ World' = World /\ UNCHANGED group
      /\ transaction' = [u \in {v \in Urls : page[v] # {}} |-> Recorded(World, u)]
  BY DEF Begin, World, world
<1>3. SavedAt(World, group, transaction, stage)
  BY DEF SavedHere
<1>4. \A u \in Urls : page[u] # {} => disk[u] # {} /\ u \notin signal
  BY <1>1, <1>2, <1>3 DEF SavedAt
<1>5. ASSUME NEW u \in Urls, page[u] # {}
      PROVE  disk[u] # {} /\ (~Recorded(World, u).dirty => disk[u] = {Recorded(World, u).before})
  <2>1. Recorded(World, u).before = The(page[u]).text /\ Recorded(World, u).dirty = The(page[u]).modified
    BY <1>1 DEF Recorded
  <2>2. Clean(World)
    BY <1>3 DEF SavedAt
  <2> QED BY <1>1, <1>4, <1>5, <2>1, <2>2 DEF Clean
<1>6. Over(transaction', disk)
  BY <1>2, <1>5 DEF Over
<1>7. SavedAt(World, group, transaction', "open")
  BY <1>1, <1>2, <1>3, <1>6 DEF SavedAt
<1> QED BY <1>2, <1>7 DEF SavedHere

(* Pages that are marked as modified or gone leave the rest as it is. *)
LEMMA PagesSaved ==
  ASSUME TypeOK, SavedHere, UNCHANGED <<disk, stage, group, transaction>>, signal' \subseteq signal,
         \A u \in Urls : \/ page'[u] = {}
                         \/ page'[u] = page[u] /\ (u \in signal <=> u \in signal')
                         \/ page[u] # {} /\ The(page'[u]).modified
  PROVE  SavedHere'
<1>1. World.disk = disk /\ World.page = page /\ World.signal = signal
  BY TypesAre, WorldsTypes
<1>2. World'.disk = disk /\ World'.page = page' /\ World'.signal = signal'
  BY DEF World
<1>3. SavedAt(World, group, transaction, stage) /\ Clean(World)
  BY DEF SavedHere, SavedAt
<1>4. Clean(World')
  BY <1>1, <1>2, <1>3 DEF Clean
<1>5. SavedAt(World', group, transaction, stage)
  BY <1>1, <1>2, <1>3, <1>4 DEF SavedAt
<1> QED BY <1>5 DEF SavedHere

LEMMA UserSaved ==
  ASSUME TypeOK, SavedHere, NEW u \in Urls, Open(u) \/ Type(u) \/ Close(u) \/ Report(u) \/ Destroyed(u)
  PROVE  SavedHere'
<1>1. page \in [Urls -> Maybe(Editors)]
  BY TypesAre, WorldsTypes
<1>2. CASE Open(u)
  BY <1>2, LoadedSaved DEF Open
<1>3. CASE Destroyed(u)
  <2>1. PICK us : us = IF disk[u] # {} THEN {u} ELSE {}
    OBVIOUS
  <2>2. Loaded(us) /\ UNCHANGED <<stage, group>>
    BY <1>3, <2>1 DEF Destroyed
  <2> QED BY <2>1, <2>2, LoadedSaved
<1>4. CASE Type(u)
  <2>1. PICK e : e = [text |-> Text(u) \cup {<<"user", used'.typed>>}, modified |-> TRUE]
    OBVIOUS
  <2>2. page[u] # {} /\ page' = [page EXCEPT ![u] = {e}] /\ UNCHANGED <<disk, signal, stage, group, transaction>>
    BY <1>4, <2>1 DEF Type
  <2>7. The({e}) = e /\ e.modified = TRUE
    BY <2>1, TheOne
  <2>3. The({e}).modified
    BY ONLY <2>7
  <2>4. page'[u] = {e} /\ \A v \in Urls : v # u => page'[v] = page[v]
    BY <1>1, <2>2
  <2>5. The(page'[u]).modified
    BY <2>3, <2>4
  <2>6. \A v \in Urls : \/ page'[v] = {}
                        \/ page'[v] = page[v] /\ (v \in signal <=> v \in signal')
                        \/ page[v] # {} /\ The(page'[v]).modified
    BY <2>2, <2>4, <2>5
  <2> QED BY <2>2, <2>6, PagesSaved
<1>5. CASE Close(u)
  BY <1>1, <1>5, PagesSaved DEF Close
<1>6. CASE Report(u)
  <2>1. page' = [page EXCEPT ![u] = {}] /\ signal' = signal \ {u} /\ UNCHANGED <<disk, stage, group, transaction>>
    BY <1>6 DEF Report
  <2>2. page'[u] = {} /\ \A v \in Urls : v # u => page'[v] = page[v] /\ (v \in signal <=> v \in signal')
    BY <1>1, <2>1
  <2>3. \A v \in Urls : \/ page'[v] = {}
                        \/ page'[v] = page[v] /\ (v \in signal <=> v \in signal')
                        \/ page[v] # {} /\ The(page'[v]).modified
    BY <2>2
  <2> QED BY <2>1, <2>3, PagesSaved
<1> QED BY <1>2, <1>3, <1>4, <1>5, <1>6

LEMMA EditSaved == ASSUME TypeOK, SavedHere, NEW u \in Urls, Edit(u) PROVE SavedHere'
<1>1. World \in Worlds /\ transaction \in Docs /\ group \in Groups /\ World.disk = disk
  BY TypesAre, WorldsTypes
<1>2. PICK w, us, open, joined : /\ w = World /\ us = {u} /\ open = Opened(w, us)
                                 /\ joined = Joined(transaction, w, open)
  OBVIOUS
<1>3. open \in Worlds /\ open.page[u] # {} /\ open.disk = w.disk /\ open.signal = w.signal
      /\ \A v \in Urls : v # u => open.page[v] = w.page[v]
  <2>1. /\ open \in Worlds /\ open.page[u] # {} /\ Same(open.disk, w.disk) /\ Same(open.signal, w.signal)
        /\ \A v \in Urls : v # u => Same(open.page[v], w.page[v])
    BY <1>1, <1>2, OpenedIs
  <2> QED BY <2>1 DEF Same
<1>4. SavedAt(w, group, transaction, stage) /\ Clean(w) /\ Over(transaction, w.disk) /\ stage = "open"
      /\ w.disk[u] # {} /\ UNCHANGED stage
  BY <1>1, <1>2 DEF SavedHere, SavedAt, Edit, Call
<1>5. u \notin w.signal
  BY <1>4 DEF SavedAt
<1>6. Clean(open)
  BY <1>1, <1>2, <1>4, OpenedClean
<1>7. joined \in Docs
  BY <1>1, <1>2, <1>3, JoinedIs
<1>8. Over(joined, open.disk)
  <2>1. \A v \in Urls : w.page[v] = {} /\ open.page[v] # {} => open.disk[v] # {} /\ v \notin open.signal
    BY <1>3, <1>4, <1>5
  <2> QED BY <1>1, <1>2, <1>3, <1>4, <1>6, <2>1, OverJoined
<1>9. PICK now, text, new, changed :
        /\ now = The(open.page[u])
        /\ text = now.text \cup {<<"agent", used.tools + 1>>}
        /\ new = IF u \in DOMAIN joined THEN joined[u] ELSE Recorded(open, u)
        /\ changed = [new EXCEPT !.after = text]
  OBVIOUS
<1>10. \/ /\ Becomes([open EXCEPT !.page[u] = {[text |-> text, modified |-> TRUE]}])
          /\ transaction' = [v \in DOMAIN joined \cup {u} |-> IF v = u THEN changed ELSE joined[v]]
          /\ UNCHANGED group
       \/ Becomes(open) /\ transaction' = joined /\ Invalid
  BY <1>2, <1>9 DEF Edit
<1>11. CASE Becomes(open) /\ transaction' = joined /\ Invalid
  <2>1. Same(World', open)
    BY <1>3, <1>11, BecomesIs
  <2>2. group'.steps = group.steps /\ group'.applied = group.applied
    BY <1>1, <1>11, GroupIs DEF Invalid
  <2>3. SavedAt(open, group', joined, stage)
    BY <1>3, <1>4, <1>6, <1>8, <2>2 DEF SavedAt
  <2> QED BY <1>4, <1>11, <2>1, <2>3 DEF SavedHere, Same
<1>12. CASE /\ Becomes([open EXCEPT !.page[u] = {[text |-> text, modified |-> TRUE]}])
            /\ transaction' = [v \in DOMAIN joined \cup {u} |-> IF v = u THEN changed ELSE joined[v]]
            /\ UNCHANGED group
  <2>1. PICK w2 : w2 = [open EXCEPT !.page[u] = {[text |-> text, modified |-> TRUE]}]
    OBVIOUS
  <2>2. text \in Texts /\ new \in States
    <3>1. now.text \in Texts
      BY <1>3, <1>9, PageIs
    <3>2. text \in Texts
      <4>1. Call("edit")
        BY DEF Edit
      <4> QED BY <1>9, <3>1, <4>1, CallCounts, AgentText
    <3>3. new \in States
      BY <1>3, <1>7, <1>9, RecordedIs, DocsAre
    <3> QED BY <3>2, <3>3
  <2>3. /\ w2 \in Worlds /\ w2.disk = open.disk /\ w2.signal = open.signal
        /\ w2.page = [open.page EXCEPT ![u] = {[text |-> text, modified |-> TRUE]}]
    <3>1. w2 \in Worlds
      BY <1>3, <2>1, <2>2, PutPage
    <3>2. open = [disk |-> open.disk, page |-> open.page, signal |-> open.signal]
      BY <1>3 DEF Worlds
    <3>3. PICK p : p = {[text |-> text, modified |-> TRUE]}
      OBVIOUS
    <3>4. w2 = [open EXCEPT !.page[u] = p]
      BY <2>1, <3>3
    <3>5. w2.disk = open.disk /\ w2.signal = open.signal /\ w2.page = [open.page EXCEPT ![u] = p]
      BY ONLY <3>2, <3>4
    <3> QED BY <3>1, <3>3, <3>5
  <2>4. Same(World', w2)
    <3>1. Becomes(w2)
      BY <1>12, <2>1
    <3> QED BY <2>3, <3>1, BecomesIs
  <2>5. Clean(w2)
    <3>1. PICK e : e = [text |-> text, modified |-> TRUE]
      OBVIOUS
    <3>4. The({e}) = e /\ e.modified = TRUE
      BY <3>1, TheOne
    <3>2. The({e}).modified
      BY ONLY <3>4
    <3>3. w2.page = [open.page EXCEPT ![u] = {e}] /\ open.page \in [Urls -> Maybe(Editors)]
      BY <1>3, <2>3, <3>1 DEF Worlds
    <3> QED BY <1>6, <2>3, <3>2, <3>3 DEF Clean
  <2>6. changed.before = new.before /\ changed.dirty = new.dirty
    BY <1>9, <2>2 DEF States
  <2>7. ~new.dirty => open.disk[u] = {new.before}
    <3>1. CASE u \in DOMAIN joined
      BY <1>8, <1>9, <3>1 DEF Over
    <3>2. CASE u \notin DOMAIN joined
      <4>1. new.before = now.text /\ new.dirty = now.modified
        BY <1>9, <3>2 DEF Recorded
      <4> QED BY <1>3, <1>5, <1>6, <1>9, <4>1 DEF Clean
    <3> QED BY <3>1, <3>2
  <2>8. Over(transaction', w2.disk)
    <3>1. ASSUME NEW v \in DOMAIN joined \cup {u}
          PROVE  /\ w2.disk[v] # {}
                 /\ ~transaction'[v].dirty => w2.disk[v] = {transaction'[v].before}
      <4>1. CASE v = u
        BY <1>3, <1>4, <1>12, <2>3, <2>6, <2>7, <4>1
      <4>2. CASE v # u
        BY <1>8, <1>12, <2>3, <3>1, <4>2 DEF Over
      <4> QED BY <4>1, <4>2
    <3>2. DOMAIN transaction' = DOMAIN joined \cup {u}
      BY <1>12
    <3> QED BY <3>1, <3>2 DEF Over
  <2>9. SavedAt(w2, group, transaction', stage)
    BY <1>3, <1>4, <2>3, <2>5, <2>8 DEF SavedAt
  <2> QED BY <1>4, <1>12, <2>4, <2>9 DEF SavedHere, Same
<1> QED BY <1>10, <1>11, <1>12

LEMMA CallToFree ==
  ASSUME TypeOK, Apart, Apart', NEW tool, NEW u, CallTo(tool, u)
  PROVE  u \notin FreedOf(group.steps) /\ stage = "open" /\ UNCHANGED stage
<1>1. used \in Counts /\ used.reused \in Nat
  BY TypesAre, CountsAre
<1>2. used' = [used EXCEPT !.tools = @ + 1, !.reused = IF u \in Freed THEN @ + 1 ELSE @]
      /\ stage = "open" /\ UNCHANGED stage
  BY DEF CallTo
<1>3. used'.reused = IF u \in Freed THEN used.reused + 1 ELSE used.reused
  BY <1>1, <1>2 DEF Counts
<1>4. u \notin Freed
  BY <1>1, <1>3 DEF Apart
<1>5. Freed = FreedOf(group.steps)
  BY DEF Freed, FreedOf
<1> QED BY <1>2, <1>4, <1>5

LEMMA PushIs ==
  ASSUME NEW g \in Groups, NEW steps, NEW new, new = [g EXCEPT !.steps = @ \o steps]
  PROVE  new.steps = g.steps \o steps /\ new.applied = g.applied
<1>1. g = [steps |-> g.steps, applied |-> g.applied, error |-> g.error]
  BY GroupIs
<1> QED BY ONLY <1>1, new = [g EXCEPT !.steps = @ \o steps]

LEMMA CreateSaved ==
  ASSUME TypeOK, SavedHere, Apart, Apart', NEW u \in Urls, CreateFile(u)
  PROVE  SavedHere'
<1>1. World \in Worlds /\ transaction \in Docs /\ group \in Groups /\ World.disk = disk
  BY TypesAre, WorldsTypes
<1>2. PICK w, step, r, joined : /\ w = World /\ step = Step("create", u, u) /\ r = Create(w, step)
                                /\ joined = Joined(transaction, w, r.w)
  OBVIOUS
<1>3. step \in Steps /\ step.kind = "create" /\ step.url = u /\ step.trash = {}
  BY <1>2, FileStepIs
<1>4. /\ SavedAt(w, group, transaction, "open") /\ Clean(w) /\ Over(transaction, w.disk)
      /\ stage' = "open" /\ u \notin FreedOf(group.steps) /\ w.disk[u] = {}
  <2>1. stage = "open" /\ UNCHANGED stage /\ u \notin FreedOf(group.steps)
    BY CallToFree DEF CreateFile
  <2>2. w.disk[u] = {}
    BY <1>1, <1>2 DEF CreateFile
  <2> QED BY <1>2, <2>1, <2>2 DEF SavedHere, SavedAt
<1>5. /\ Clean(r.w) /\ r.step = step /\ r.w.signal = w.signal /\ r.w \in Worlds
      /\ r.w.disk = [w.disk EXCEPT ![u] = {{}}]
  <2>1. /\ Clean(r.w) /\ Same(r.step, step) /\ Same(r.w.signal, w.signal)
        /\ Same(r.w.disk, [w.disk EXCEPT ![step.url] = IF step.trash = {} THEN {{}} ELSE step.trash])
    BY <1>1, <1>2, <1>3, <1>4, CreateClean
  <2>2. r.w \in Worlds
    BY <1>1, <1>2, <1>3, CreateIs
  <2>3. (IF step.trash = {} THEN {{}} ELSE step.trash) = {{}}
    BY <1>3
  <2> QED BY ONLY <1>3, <2>1, <2>2, <2>3 DEF Same
<1>6. \A v \in Urls : v # u => r.w.page[v] = w.page[v]
  <2>1. \A v \in Urls : v # u => Same(r.w.page[v], w.page[v])
    BY <1>1, <1>2, <1>3, <1>4, CreateIs
  <2> QED BY <2>1 DEF Same
<1>7. Becomes(r.w) /\ Push(<<step>>) /\ transaction' = joined
  BY <1>2, <1>5 DEF CreateFile
<1>8. World' = r.w
  <2>1. Same(World', r.w)
    BY <1>5, <1>7, BecomesIs
  <2> QED BY <2>1 DEF Same
<1>9. group'.steps = group.steps \o <<step>> /\ group'.applied = group.applied
  BY <1>1, <1>7, PushIs DEF Push
<1>10. w.disk \in Files /\ r.w.disk \in Files
  BY <1>1, <1>2, <1>5 DEF Worlds, Files
<1>11. PICK steps : steps = group.steps
  OBVIOUS
<1>12. steps \in Seq(Steps)
  BY <1>1, <1>11, GroupIs
<1>13. OnPath(group'.steps, TRUE, r.w.disk)
  <2>1. Leads(step, w.disk, r.w.disk)
    BY <1>3, <1>4, <1>5 DEF Leads
  <2>2. OnPath(steps, TRUE, w.disk)
    BY <1>4, <1>11 DEF SavedAt
  <2>3. PICK d, e, new : d = w.disk /\ e = r.w.disk /\ new = steps \o <<step>>
    OBVIOUS
  <2>4. OnPath(new, TRUE, e)
    BY <1>3, <1>10, <1>12, <2>1, <2>2, <2>3, PathMore
  <2> QED BY <1>9, <1>11, <2>3, <2>4
<1>14. FreedOf(group'.steps) = FreedOf(group.steps)
  BY <1>3, <1>9, <1>11, <1>12, FreedMore
<1>15. \A v \in Urls : v # u => r.w.disk[v] = w.disk[v]
  BY <1>5, <1>10 DEF Files
<1>20. r.w.disk[u] = {{}} /\ r.w.disk[u] # {}
  BY <1>5, <1>10 DEF Files
<1>16. Over(joined, r.w.disk)
  <2>1. Over(transaction, r.w.disk)
    <3>1. DOMAIN transaction \subseteq Urls
      BY <1>1, DocsAre
    <3> QED BY <1>4, <1>15, <3>1 DEF Over
  <2>2. \A v \in Urls : w.page[v] = {} /\ r.w.page[v] # {} => r.w.disk[v] # {} /\ v \notin r.w.signal
    BY <1>4, <1>5, <1>6, <1>20 DEF SavedAt
  <2> QED BY <1>1, <1>2, <1>5, <2>1, <2>2, OverJoined
<1>17. FreedOf(group.steps) \subseteq Urls
  <2>1. \A n \in DOMAIN steps : steps[n].kind \in {"rename", "delete"} => steps[n].url \in Urls
    BY <1>12, StepIs
  <2> QED BY <1>11, <2>1 DEF FreedOf
<1>18. group'.applied = TRUE
  BY <1>4, <1>9, <1>1, GroupIs DEF SavedAt
<1>19. SavedAt(r.w, group', joined, "open")
  BY <1>4, <1>5, <1>13, <1>14, <1>15, <1>16, <1>17, <1>18 DEF SavedAt
<1> QED BY <1>4, <1>7, <1>8, <1>19 DEF SavedHere

LEMMA FreedUrls ==
  ASSUME NEW steps \in Seq(Steps)
  PROVE  FreedOf(steps) \subseteq Urls
<1>1. \A n \in DOMAIN steps : steps[n] \in Steps
  OBVIOUS
<1>2. \A n \in DOMAIN steps : steps[n].kind \in {"rename", "delete"} => steps[n].url \in Urls
  BY <1>1, StepIs
<1> QED BY <1>2 DEF FreedOf

(* A refused call leaves all but the error as it is. *)
LEMMA SameSaved ==
  ASSUME TypeOK, SavedHere, UNCHANGED <<world, transaction, stage>>, Invalid \/ UNCHANGED group
  PROVE  SavedHere'
<1>1. group'.steps = group.steps /\ group'.applied = group.applied
  BY TypesAre, GroupIs DEF Invalid
<1>2. World' = World
  BY DEF World, world
<1>3. SavedAt(World, group', transaction, stage)
  BY <1>1 DEF SavedHere, SavedAt
<1> QED BY <1>2, <1>3 DEF SavedHere

LEMMA RenameSaved ==
  ASSUME TypeOK, SavedHere, Apart, Apart', NEW u \in Urls, NEW v \in Urls, RenameFile(u, v)
  PROVE  SavedHere'
<1>1. World \in Worlds /\ transaction \in Docs /\ group \in Groups /\ World.disk = disk
  BY TypesAre, WorldsTypes
<1>2. PICK w, step, r : w = World /\ step = Step("rename", u, v) /\ r = Rename(w, u, v, step)
  OBVIOUS
<1>3. step \in Steps /\ step.kind = "rename" /\ step.url = u /\ step.to = v
  BY <1>2, FileStepIs
<1>4. /\ SavedAt(w, group, transaction, "open") /\ Clean(w) /\ Over(transaction, w.disk)
      /\ stage = "open" /\ stage' = "open" /\ v \notin FreedOf(group.steps) /\ w.disk[u] # {} /\ u # v
  <2>1. stage = "open" /\ UNCHANGED stage /\ v \notin FreedOf(group.steps)
    BY CallToFree DEF RenameFile
  <2>2. w.disk[u] # {} /\ u # v
    BY <1>1, <1>2 DEF RenameFile
  <2> QED BY <1>2, <2>1, <2>2 DEF SavedHere, SavedAt
<1>5. \/ UNCHANGED <<world, transaction>> /\ (Invalid \/ UNCHANGED group)
      \/ /\ r.ok /\ Becomes(r.w) /\ Push(<<r.step>>)
         /\ transaction' = Renamed(transaction, u, v)
  <2>1. r.ok \in BOOLEAN
    BY <1>1, <1>2, <1>3, RenameIs
  <2> QED BY <1>2, <2>1 DEF RenameFile
<1>6. CASE UNCHANGED <<world, transaction>> /\ (Invalid \/ UNCHANGED group)
  BY <1>4, <1>6, SameSaved
<1>7. CASE r.ok /\ Becomes(r.w) /\ Push(<<r.step>>) /\ transaction' = Renamed(transaction, u, v)
  <2>1. w.disk[v] = {}
    <3>1. w.disk[u] = {} \/ w.disk[v] # {} => r = Fails(w, step)
      BY <1>2 DEF Rename
    <3> QED BY <1>7, <3>1 DEF Fails
  <2>2. /\ Clean(r.w) /\ r.step = step /\ r.w \in Worlds
        /\ r.w.disk = [w.disk EXCEPT ![u] = {}, ![v] = w.disk[u]]
        /\ r.w.signal = Reported(w, u)
    <3>1. /\ Clean(r.w) /\ Same(r.step, step) /\ Same(r.w.disk, [w.disk EXCEPT ![u] = {}, ![v] = w.disk[u]])
      BY <1>1, <1>2, <1>3, <1>4, <2>1, RenameClean
    <3>2. r.w \in Worlds /\ Same(r.w.signal, Reported(w, u))
      <4>1. /\ w \in Worlds /\ step \in Steps /\ step.kind = "rename" /\ u \in Urls /\ v \in Urls
            /\ r = Rename(w, u, v, step) /\ r.ok
        BY <1>1, <1>2, <1>3, <1>7
      <4> QED BY ONLY <4>1, RenameIs
    <3> QED BY <3>1, <3>2 DEF Same
  <2>3. Push(<<step>>)
    BY <1>7, <2>2
  <2>4. World' = r.w
    <3>1. Same(World', r.w)
      BY <1>7, <2>2, BecomesIs
    <3> QED BY <3>1 DEF Same
  <2>5. group'.steps = group.steps \o <<step>> /\ group'.applied = group.applied
    BY <1>1, <2>3, PushIs DEF Push
  <2>6. w.disk \in Files /\ r.w.disk \in Files
    BY <1>1, <1>2, <2>2 DEF Worlds, Files
  <2>7. PICK steps : steps = group.steps
    OBVIOUS
  <2>8. steps \in Seq(Steps)
    BY <1>1, <2>7, GroupIs
  <2>9. OnPath(group'.steps, TRUE, r.w.disk)
    <3>1. Leads(step, w.disk, r.w.disk)
      BY <1>3, <1>4, <2>1, <2>2 DEF Leads
    <3>2. OnPath(steps, TRUE, w.disk)
      BY <1>4, <2>7 DEF SavedAt
    <3>3. PICK d, e, new : d = w.disk /\ e = r.w.disk /\ new = steps \o <<step>>
      OBVIOUS
    <3>4. OnPath(new, TRUE, e)
      BY <1>3, <2>6, <2>8, <3>1, <3>2, <3>3, PathMore
    <3> QED BY <2>5, <2>7, <3>3, <3>4
  <2>10. FreedOf(group'.steps) = FreedOf(group.steps) \cup {u}
    BY <1>3, <2>5, <2>7, <2>8, FreedMore
  <2>11. /\ r.w.disk[u] = {} /\ r.w.disk[v] = w.disk[u]
         /\ \A x \in Urls : x # u /\ x # v => r.w.disk[x] = w.disk[x]
    BY <1>4, <2>2, <2>6 DEF Files
  <2>12. FreedOf(group.steps) \subseteq Urls
    BY <2>7, <2>8, FreedUrls
  <2>13. \A x \in FreedOf(group'.steps) : r.w.disk[x] = {}
    BY <1>4, <2>10, <2>11, <2>12 DEF SavedAt
  <2>14. r.w.signal \subseteq FreedOf(group'.steps)
    BY <1>4, <2>2, <2>10 DEF SavedAt, Reported
  <2>15. Over(transaction', r.w.disk)
    <3>1. PICK docs, new : docs = transaction /\ new = Renamed(docs, u, v)
      OBVIOUS
    <3>2. Over(docs, w.disk) /\ DOMAIN docs \subseteq Urls
      BY <1>1, <1>4, <3>1, DocsAre
    <3>3. v \notin DOMAIN docs
      BY <2>1, <3>2 DEF Over
    <3>4. /\ DOMAIN new = (DOMAIN docs \ {u}) \cup (IF u \in DOMAIN docs THEN {v} ELSE {})
          /\ \A x \in DOMAIN new : new[x] = IF x = v /\ u \in DOMAIN docs THEN docs[u] ELSE docs[x]
      BY <3>1 DEF Renamed
    <3>5. ASSUME NEW x \in DOMAIN new
          PROVE  r.w.disk[x] # {} /\ (~new[x].dirty => r.w.disk[x] = {new[x].before})
      <4>1. CASE x = v /\ u \in DOMAIN docs
        BY <2>11, <3>2, <3>4, <4>1 DEF Over
      <4>2. CASE ~(x = v /\ u \in DOMAIN docs)
        <5>1. x \in DOMAIN docs /\ x # u /\ x # v /\ new[x] = docs[x]
          BY <3>3, <3>4, <4>2
        <5> QED BY <2>11, <3>2, <5>1 DEF Over
      <4> QED BY <4>1, <4>2
    <3> QED BY <1>7, <3>1, <3>5 DEF Over
  <2>16. group'.applied = TRUE
    BY <1>4, <2>5, <1>1, GroupIs DEF SavedAt
  <2>17. SavedAt(r.w, group', transaction', "open")
    BY <2>2, <2>9, <2>13, <2>14, <2>15, <2>16 DEF SavedAt
  <2> QED BY <1>4, <2>4, <2>17 DEF SavedHere
<1> QED BY <1>5, <1>6, <1>7

LEMMA DeleteSaved ==
  ASSUME TypeOK, SavedHere, NEW u \in Urls, DeleteFile(u)
  PROVE  SavedHere'
<1>1. World \in Worlds /\ transaction \in Docs /\ group \in Groups /\ World.disk = disk
  BY TypesAre, WorldsTypes
<1>2. PICK w, step, r, us, edit, edits :
        /\ w = World /\ step = Step("delete", u, u) /\ r = Trash(w, step)
        /\ us = {u} /\ edit = EditStep(transaction, us)
        /\ edits = IF Changed(transaction, us) = {} THEN << >> ELSE <<edit>>
  OBVIOUS
<1>3. step \in Steps /\ step.kind = "delete" /\ step.url = u
  BY <1>2, FileStepIs
<1>4. /\ SavedAt(w, group, transaction, "open") /\ Clean(w) /\ Over(transaction, w.disk)
      /\ stage = "open" /\ stage' = "open" /\ w.disk[u] # {}
  <2>1. stage = "open" /\ UNCHANGED stage /\ w.disk[u] # {}
    BY <1>1, <1>2 DEF DeleteFile, Call
  <2> QED BY <1>2, <2>1 DEF SavedHere, SavedAt
<1>5. \/ UNCHANGED <<world, transaction>> /\ Invalid
      \/ Becomes(r.w) /\ Push(edits \o <<r.step>>) /\ transaction' = Forget(transaction, us)
  BY <1>2 DEF DeleteFile
<1>6. CASE UNCHANGED <<world, transaction>> /\ Invalid
  BY <1>4, <1>6, SameSaved
<1>7. CASE Becomes(r.w) /\ Push(edits \o <<r.step>>) /\ transaction' = Forget(transaction, us)
  <2>1. /\ Clean(r.w) /\ r.w.disk = [w.disk EXCEPT ![u] = {}] /\ r.w \in Worlds /\ r.step \in Steps
        /\ r.step.kind = "delete" /\ r.step.url = u /\ r.step.trash = w.disk[u]
        /\ r.w.signal = Reported(w, u)
    <3>1. /\ Clean(r.w) /\ Same(r.w.disk, [w.disk EXCEPT ![step.url] = {}])
          /\ SameFile(r.step, step) /\ Same(r.step.trash, w.disk[step.url])
      BY <1>1, <1>2, <1>3, <1>4, TrashClean
    <3>2. r.w \in Worlds /\ r.step \in Steps /\ Same(r.w.signal, Reported(w, step.url))
      BY <1>1, <1>2, <1>3, <1>4, TrashIs
    <3> QED BY ONLY <1>3, <3>1, <3>2 DEF Same, SameFile
  <2>2. World' = r.w
    <3>1. Same(World', r.w)
      BY <1>7, <2>1, BecomesIs
    <3> QED BY <3>1 DEF Same
  <2>3. w.disk \in Files /\ r.w.disk \in Files
    BY <1>1, <1>2, <2>1 DEF Worlds, Files
  <2>4. PICK steps, mid, last, new, d, e :
          /\ steps = group.steps /\ mid = steps \o edits /\ last = r.step /\ new = mid \o <<last>>
          /\ d = w.disk /\ e = r.w.disk
    OBVIOUS
  <2>5. steps \in Seq(Steps) /\ OnPath(steps, TRUE, d) /\ FreedOf(steps) \subseteq Urls
    <3>1. steps \in Seq(Steps)
      BY <1>1, <2>4, GroupIs
    <3> QED BY <1>4, <2>4, <3>1, FreedUrls DEF SavedAt
  <2>6. edit \in Steps /\ edit.kind = "edit" /\ Leads(edit, d, d)
    <3>1. edit \in Steps
      BY <1>1, <1>2, DocsPart
    <3>2. edit = [kind |-> "edit", docs |-> [x \in Changed(transaction, us) |-> transaction[x]]]
      BY <1>2 DEF EditStep
    <3>3. Changed(transaction, us) \subseteq DOMAIN transaction
      BY DEF Changed
    <3>4. Over(edit.docs, d)
      BY <1>4, <2>4, <3>2, <3>3 DEF Over
    <3> QED BY <3>1, <3>2, <3>4 DEF Leads
  <2>7. mid \in Seq(Steps) /\ OnPath(mid, TRUE, d) /\ FreedOf(mid) = FreedOf(steps)
    <3>1. CASE edits = << >>
      <4>1. mid = steps
        BY <2>4, <2>5, <3>1
      <4> QED BY <2>5, <4>1
    <3>2. CASE edits = <<edit>>
      <4>1. mid = steps \o <<edit>>
        BY <2>4, <3>2
      <4>2. mid \in Seq(Steps) /\ OnPath(mid, TRUE, d)
        BY <2>3, <2>4, <2>5, <2>6, <4>1, PathMore
      <4> QED BY <2>5, <2>6, <4>1, <4>2, FreedMore
    <3> QED BY <1>2, <3>1, <3>2
  <2>8. OnPath(new, TRUE, e)
    <3>1. Leads(last, d, e)
      BY <1>4, <2>1, <2>4 DEF Leads
    <3>2. last \in Steps /\ d \in Files /\ e \in Files /\ mid \in Seq(Steps) /\ OnPath(mid, TRUE, d)
      BY <2>1, <2>3, <2>4, <2>7
    <3>3. new = mid \o <<last>>
      BY <2>4
    <3> QED BY ONLY <3>1, <3>2, <3>3, PathMore
  <2>9. FreedOf(new) = FreedOf(steps) \cup {u}
    <3>1. last \in Steps /\ last.kind = "delete" /\ last.url = u /\ new = mid \o <<last>> /\ mid \in Seq(Steps)
      BY <2>1, <2>4, <2>7
    <3>2. FreedOf(new) = FreedOf(mid) \cup {u}
      BY ONLY <3>1, FreedMore
    <3> QED BY <2>7, <3>2
  <2>10. group'.steps = new /\ group'.applied = TRUE
    <3>1. group'.steps = steps \o (edits \o <<last>>) /\ group'.applied = group.applied
      BY <1>1, <1>7, <2>4, PushIs DEF Push
    <3>2. edits \in Seq(Steps)
      BY <1>2, <2>6
    <3>3. steps \o (edits \o <<last>>) = (steps \o edits) \o <<last>>
      <4>1. PICK one : one = <<last>>
        OBVIOUS
      <4>2. one \in Seq(Steps)
        BY <2>1, <2>4, <4>1
      <4> QED BY <2>5, <3>2, <4>1, <4>2, ConcatAssociative
    <3>4. group.applied = TRUE
      BY <1>1, <1>4, GroupIs DEF SavedAt
    <3> QED BY <2>4, <3>1, <3>3, <3>4
  <2>11. e[u] = {} /\ \A x \in Urls : x # u => e[x] = d[x]
    BY <2>1, <2>3, <2>4 DEF Files
  <2>12. Over(transaction', e)
    <3>1. DOMAIN transaction \subseteq Urls
      BY <1>1, DocsAre
    <3> QED BY <1>2, <1>4, <1>7, <2>4, <2>11, <3>1 DEF Over, Forget
  <2>13. /\ \A x \in FreedOf(new) : e[x] = {}
         /\ r.w.signal \subseteq FreedOf(new)
    BY <1>4, <2>1, <2>4, <2>5, <2>9, <2>11 DEF SavedAt, Reported
  <2>14. SavedAt(r.w, group', transaction', "open")
    BY <2>1, <2>4, <2>8, <2>10, <2>12, <2>13 DEF SavedAt
  <2> QED BY <1>4, <2>2, <2>14 DEF SavedHere
<1> QED BY <1>5, <1>6, <1>7

LEMMA CommitSaved == ASSUME TypeOK, SavedHere, Commit PROVE SavedHere'
<1>1. World \in Worlds /\ transaction \in Docs /\ group \in Groups
  BY TypesAre
<1>0. PICK redo \in BOOLEAN : redo = TRUE
  OBVIOUS
<1>2. PICK w, all, step, r :
        /\ w = World /\ all = Urls /\ step = EditStep(transaction, all) /\ redo
        /\ r = IF DOMAIN step.docs = {} THEN Works(w, step) ELSE Redo(w, step)
  BY <1>0
<1>3. step \in Steps /\ step.kind = "edit" /\ step.docs = [u \in Changed(transaction, all) |-> transaction[u]]
  <2>1. step \in Steps
    BY <1>1, <1>2, DocsPart
  <2> QED BY <1>2, <2>1 DEF EditStep
<1>4. /\ SavedAt(w, group, transaction, "open") /\ Clean(w) /\ Over(transaction, w.disk)
      /\ OnPath(group.steps, group.applied, w.disk) /\ group.applied
  BY <1>2 DEF Commit, SavedHere, SavedAt
<1>5. Over(step.docs, w.disk)
  <2>1. Changed(transaction, all) \subseteq DOMAIN transaction
    BY DEF Changed
  <2> QED BY <1>3, <1>4, <2>1 DEF Over
<1>6. r.w \in Worlds /\ Clean(r.w) /\ r.w.disk = w.disk
  <2>1. CASE DOMAIN step.docs = {}
    BY <1>1, <1>2, <1>4, <2>1 DEF Works
  <2>2. CASE DOMAIN step.docs # {}
    <3>1. r = Do(w, step, redo)
      BY <1>2, <1>3, <2>2 DEF Do
    <3>2. Clean(r.w) /\ Same(r.w.disk, w.disk)
      BY <1>1, <1>2, <1>3, <1>4, <1>5, <3>1, EditClean
    <3>3. r.w \in Worlds
      BY <1>1, <1>2, <1>3, <3>1, DoIs
    <3> QED BY <3>2, <3>3 DEF Same
  <2> QED BY <2>1, <2>2
<1>7. /\ Becomes(r.w) /\ transaction' = << >> /\ stage' \in {"over", "committed"}
      /\ UNCHANGED group \/ Push(<<step>>) \/ Invalid
  BY <1>2 DEF Commit
<1>8. World' = r.w
  <2>1. Same(World', r.w)
    BY <1>6, <1>7, BecomesIs
  <2> QED BY <2>1 DEF Same
<1>9. OnPath(group'.steps, group'.applied, w.disk)
  <2>1. CASE UNCHANGED group
    BY <1>4, <2>1
  <2>2. CASE Invalid
    BY <1>1, <1>4, <2>2, GroupIs DEF Invalid
  <2>3. CASE Push(<<step>>)
    <3>1. PICK steps, new, d : steps = group.steps /\ new = steps \o <<step>> /\ d = w.disk
      OBVIOUS
    <3>2. group.applied = TRUE /\ steps \in Seq(Steps) /\ d \in Files
      BY <1>1, <1>2, <1>4, <3>1, GroupIs DEF Worlds, Files
    <3>3. Leads(step, d, d)
      BY <1>3, <1>5, <3>1 DEF Leads
    <3>4. OnPath(steps, TRUE, d)
      BY <1>4, <3>1, <3>2
    <3>5. OnPath(new, TRUE, d)
      BY <1>3, <3>1, <3>2, <3>3, <3>4, PathMore
    <3>6. group'.steps = new /\ group'.applied = TRUE
      BY <1>1, <2>3, <3>1, <3>2, PushIs DEF Push
    <3> QED BY <3>1, <3>5, <3>6
  <2> QED BY <1>7, <2>1, <2>2, <2>3
<1>10. Over(transaction', w.disk)
  BY <1>7 DEF Over
<1>11. SavedAt(r.w, group', transaction', stage')
  BY <1>6, <1>7, <1>9, <1>10 DEF SavedAt
<1> QED BY <1>8, <1>11 DEF SavedHere

LEMMA WalkSaved ==
  ASSUME TypeOK, SavedHere, NEW redo \in BOOLEAN, Walk(redo)
  PROVE  SavedHere'
<1>1. World \in Worlds /\ group \in Groups
  BY TypesAre
<1>2. PICK w, steps, run : w = World /\ steps = group.steps /\ run = Ran(w, steps, redo)
  OBVIOUS
<1>3. /\ SavedAt(w, group, transaction, stage) /\ Clean(w) /\ Over(transaction, w.disk)
      /\ OnPath(steps, group.applied, w.disk) /\ transaction = << >>
      /\ steps \in Seq(Steps) /\ group.applied = ~redo
  BY <1>1, <1>2, GroupIs DEF SavedHere, SavedAt, Walk
<1>4. UNCHANGED transaction /\ stage' \in {"over", "compensated", "committed"}
  BY DEF Walk
<1>5. \/ UNCHANGED <<world, group>>
      \/ /\ Becomes(run.w) /\ group'.steps = run.steps
         /\ group'.applied = IF run.ok THEN redo ELSE group.applied
  BY <1>2 DEF Walk
<1>6. CASE UNCHANGED <<world, group>>
  <2>1. World' = w
    BY <1>2, <1>6 DEF World, world
  <2>2. SavedAt(w, group, transaction, stage')
    BY <1>2, <1>3, <1>4 DEF SavedAt
  <2> QED BY <1>4, <1>6, <2>1, <2>2 DEF SavedHere
<1>7. CASE /\ Becomes(run.w) /\ group'.steps = run.steps
           /\ group'.applied = IF run.ok THEN redo ELSE group.applied
  <2>1. PICK P : Path(steps, P) /\ w.disk = P[IF group.applied THEN Len(steps) ELSE 0]
    BY <1>3 DEF OnPath
  <2>2. PICK n : n = Len(steps)
    OBVIOUS
  <2>3. n \in Nat /\ Pos(n, redo, 0) = IF redo THEN 0 ELSE n
    BY <1>3, <2>2 DEF Pos
  <2>4. w.disk = P[Pos(n, redo, 0)]
    BY <1>3, <2>1, <2>2, <2>3
  <2>5. Walks(n, P, redo, run) /\ run.w.disk = P[Pos(n, redo, IF run.ok THEN n ELSE 0)]
    BY <1>1, <1>2, <1>3, <2>1, <2>2, <2>4, RanClean
  <2>6. run.w \in Worlds /\ Clean(run.w) /\ Path(run.steps, P) /\ Len(run.steps) = n /\ run.ok \in BOOLEAN
    BY <2>5 DEF Walks, Runs
  <2>7. OnPath(group'.steps, group'.applied, run.w.disk)
    <3>1. CASE run.ok
      <4>1. Pos(n, redo, n) = IF redo THEN n ELSE 0
        BY <2>3 DEF Pos
      <4>2. group'.applied = redo /\ run.w.disk = P[IF redo THEN n ELSE 0]
        BY <1>7, <2>5, <3>1, <4>1
      <4> QED BY <1>7, <2>6, <4>2 DEF OnPath
    <3>2. CASE ~run.ok
      <4>1. group'.applied = ~redo /\ run.w.disk = P[IF redo THEN 0 ELSE n]
        BY <1>3, <1>7, <2>3, <2>5, <3>2
      <4> QED BY <1>7, <2>6, <4>1 DEF OnPath
    <3> QED BY <3>1, <3>2
  <2>8. World' = run.w
    <3>1. Same(World', run.w)
      BY <1>7, <2>6, BecomesIs
    <3> QED BY <3>1 DEF Same
  <2>9. Over(transaction', run.w.disk)
    BY <1>3, <1>4 DEF Over
  <2>10. SavedAt(run.w, group', transaction', stage')
    BY <1>3, <1>4, <2>6, <2>7, <2>9 DEF SavedAt
  <2> QED BY <2>8, <2>10 DEF SavedHere
<1> QED BY <1>5, <1>6, <1>7

LEMMA ApartBack ==
  ASSUME TypeOK, [Next]_vars, Apart'
  PROVE  Apart /\ \A u \in Urls : ~Save(u) /\ ~OtherWrites(u)
<1>1. /\ used \in Counts /\ used.reused \in Nat /\ used.saves \in Nat /\ used.writes \in Nat
  BY TypesAre, CountsAre
<1>2. ASSUME NEW u \in Urls, Save(u) PROVE FALSE
  <2>1. used' = [used EXCEPT !.saves = @ + 1]
    BY <1>2 DEF Save, Use
  <2>2. used'.saves = used.saves + 1
    BY <1>1, <2>1 DEF Counts
  <2> QED BY <1>1, <2>2 DEF Apart
<1>3. ASSUME NEW u \in Urls, OtherWrites(u) PROVE FALSE
  <2>1. used' = [used EXCEPT !.writes = @ + 1]
    BY <1>3 DEF OtherWrites, Use
  <2>2. used'.writes = used.writes + 1
    BY <1>1, <2>1 DEF Counts
  <2> QED BY <1>1, <2>2 DEF Apart
<1>4. Apart
  <2>1. ASSUME UNCHANGED used PROVE Apart
    BY <2>1 DEF Apart
  <2>2. ASSUME NEW what \in {"tools", "typed", "early"}, NEW bound, Use(what, bound) PROVE Apart
    <3>1. used' = [used EXCEPT ![what] = @ + 1]
      BY <2>2 DEF Use
    <3>2. used'.saves = used.saves /\ used'.writes = used.writes /\ used'.reused = used.reused
      BY <1>1, <3>1 DEF Counts
    <3> QED BY <3>2 DEF Apart
  <2>3. ASSUME NEW tool, NEW u, CallTo(tool, u) PROVE Apart
    <3>1. used' = [used EXCEPT !.tools = @ + 1, !.reused = IF u \in Freed THEN @ + 1 ELSE @]
      BY <2>3 DEF CallTo
    <3>2. /\ used'.saves = used.saves /\ used'.writes = used.writes
          /\ used'.reused = used.reused \/ used'.reused = used.reused + 1
      BY <1>1, <3>1 DEF Counts
    <3> QED BY <1>1, <3>2 DEF Apart
  <2>4. CASE Begin \/ Commit \/ UNCHANGED vars
    BY <2>1, <2>4 DEF Begin, Commit, vars
  <2>5. ASSUME NEW u \in Urls, Edit(u) \/ DeleteFile(u) PROVE Apart
    BY <2>2, <2>5 DEF Edit, DeleteFile, Call
  <2>6. ASSUME NEW u \in Urls, NEW v \in Urls, CreateFile(u) \/ RenameFile(u, v) PROVE Apart
    BY <2>3, <2>6 DEF CreateFile, RenameFile
  <2>7. ASSUME NEW redo \in BOOLEAN, Walk(redo) PROVE Apart
    BY <2>1, <2>2, <2>7 DEF Walk
  <2>8. ASSUME NEW u \in Urls, Open(u) \/ Close(u) \/ Report(u) \/ Destroyed(u) PROVE Apart
    BY <2>1, <2>8 DEF Open, Close, Report, Destroyed
  <2>9. ASSUME NEW u \in Urls, Type(u) PROVE Apart
    BY <2>2, <2>9 DEF Type
  <2> QED BY <1>2, <1>3, <2>4, <2>5, <2>6, <2>7, <2>8, <2>9 DEF Next
<1> QED BY <1>2, <1>3, <1>4

LEMMA SavedStep == TypeOK /\ (Apart => SavedHere) /\ [Next]_vars => (Apart' => SavedHere')
<1> SUFFICES ASSUME TypeOK, Apart => SavedHere, [Next]_vars, Apart' PROVE SavedHere'
  OBVIOUS
<1>1. Apart /\ SavedHere /\ \A u \in Urls : ~Save(u) /\ ~OtherWrites(u)
  BY ApartBack
<1>2. CASE Begin
  BY <1>1, <1>2, BeginSaved
<1>3. CASE Commit
  BY <1>1, <1>3, CommitSaved
<1>4. ASSUME NEW u \in Urls, Edit(u) \/ CreateFile(u) \/ DeleteFile(u) PROVE SavedHere'
  BY <1>1, <1>4, EditSaved, CreateSaved, DeleteSaved
<1>5. ASSUME NEW u \in Urls, NEW v \in Urls, RenameFile(u, v) PROVE SavedHere'
  BY <1>1, <1>5, RenameSaved
<1>6. ASSUME NEW redo \in BOOLEAN, Walk(redo) PROVE SavedHere'
  BY <1>1, <1>6, WalkSaved
<1>7. ASSUME NEW u \in Urls, Open(u) \/ Type(u) \/ Close(u) \/ Report(u) \/ Destroyed(u) PROVE SavedHere'
  BY <1>1, <1>7, UserSaved
<1>8. CASE UNCHANGED vars
  <2>1. UNCHANGED <<world, group, transaction, stage>> /\ World' = World
    BY <1>8 DEF vars, World, world
  <2> QED BY <1>1, <2>1 DEF SavedHere
<1> QED BY <1>1, <1>2, <1>3, <1>4, <1>5, <1>6, <1>7, <1>8 DEF Next

LEMMA InitSaved == Init => SavedHere
<1> SUFFICES ASSUME Init PROVE SavedHere
  OBVIOUS
<1>1. /\ disk \in [Urls -> {{}, {{}}}] /\ page = [u \in Urls |-> {}] /\ signal = {}
      /\ stage = "before" /\ transaction = << >> /\ group = [steps |-> << >>, applied |-> TRUE, error |-> FALSE]
  BY DEF Init
<1>2. Clean(World)
  BY <1>1 DEF Clean, World
<1>3. OnPath(group.steps, group.applied, World.disk)
  <2>1. PICK P : P = [k \in 0 .. 0 |-> disk]
    OBVIOUS
  <2>2. disk \in Files
    BY <1>1, EmptyText DEF Files, Maybe
  <2>3. P \in [0 .. 0 -> Files] /\ P[0] = disk
    BY <2>1, <2>2
  <2>4. group.steps = << >> /\ Len(group.steps) = 0 /\ World.disk = disk
    BY <1>1 DEF World
  <2>5. Path(group.steps, P)
    BY <2>3, <2>4 DEF Path
  <2> QED BY <2>3, <2>4, <2>5 DEF OnPath
<1>4. FreedOf(group.steps) = {}
  <2>1. group.steps = << >> /\ DOMAIN group.steps = {}
    BY <1>1
  <2> QED BY <2>1 DEF FreedOf
<1>5. Over(transaction, World.disk)
  <2>1. DOMAIN transaction = {}
    BY <1>1
  <2> QED BY <2>1 DEF Over
<1>6. World.signal = {} /\ World.page = page /\ group.applied
  BY <1>1 DEF World
<1>7. stage = "before" /\ \A u \in Urls : World.page[u] = {}
  BY <1>1, <1>6
<1> QED BY <1>1, <1>2, <1>3, <1>4, <1>5, <1>6, <1>7 DEF SavedHere, SavedAt

(* As long as nobody else writes files, a document that is not marked as   *)
(* modified is the same as its file: what a turn records of a document     *)
(* without unsaved changes is its file, and every step of its undo finds   *)
(* the file where the turn put it (linesSet, _transactionUndo).            *)
THEOREM DocumentCleanMeansSaved == Spec => []CleanMeansSavedApart
<1>1. Init => (Apart => SavedHere)
  BY InitSaved
<1>2. SavedHere => CleanMeansSaved
  <2>1. World.disk = disk /\ World.page = page /\ World.signal = signal
    BY DEF World
  <2> QED BY <2>1 DEF SavedHere, SavedAt, Clean, CleanMeansSaved, Text
<1>3. (Apart => SavedHere) => CleanMeansSavedApart
  BY <1>2 DEF CleanMeansSavedApart
<1>4. TypeOK /\ (Apart => SavedHere) /\ [Next]_vars => (Apart => SavedHere)'
  BY SavedStep
<1> QED BY <1>1, <1>3, <1>4, DocumentTypeOK, PTL DEF Spec

(***************************************************************************)
(* Undoing a turn gives back what was there: the contents of the documents *)
(* that only the agent has changed, next to the files.  As nobody else     *)
(* writes files, the text of every file is the one without an edit.        *)
(***************************************************************************)

Has(w, u) == The(w.page[u]).text
Shown(w, u) == w.page[u] # {} /\ u \notin w.signal

(* A page is marked as modified when there are edits in its text, and is   *)
(* of a file, unless the watcher has yet to report that it is gone.        *)
FitAt(w, u) ==
  /\ w.disk[u] \subseteq {{}}
  /\ w.page[u] # {} => /\ The(w.page[u]).modified <=> Has(w, u) # {}
                       /\ w.disk[u] = {} => u \in w.signal
Fit(w) == \A u \in Urls : FitAt(w, u)

Sound(docs) == \A u \in DOMAIN docs : /\ docs[u].before \subseteq docs[u].after
                                      /\ docs[u].dirty <=> docs[u].before # {}

(* A step that puts nothing but such texts back; T are the documents that  *)
(* others than the agent have changed.                                     *)
PlainStep(step, T) ==
  /\ step.kind = "edit" =>
       /\ Sound(step.docs)
       /\ \A u \in DOMAIN step.docs : /\ step.docs[u].before # step.docs[u].after
                                      /\ u \notin T => step.docs[u].before = {}
  /\ step.kind # "edit" => step.trash \subseteq {{}}

EditDocs(step) == IF step.kind = "edit" THEN DOMAIN step.docs ELSE {}

(* What is shown is without edits, except in T and X. *)
Bare(w, T, X) == \A u \in Urls \ (T \cup X) : Shown(w, u) => Has(w, u) = {}

(* Nothing but pages without edits is new. *)
Opens(w, o) ==
  /\ o.disk = w.disk /\ o.signal = w.signal
  /\ \A u \in Urls : \/ w.page[u] # {} /\ o.page[u] = w.page[u]
                     \/ w.page[u] = {} /\ (o.page[u] = {} \/ Has(o, u) = {})

LEMMA EditorHas ==
  ASSUME NEW p, NEW t, NEW m, p = {[text |-> t, modified |-> m]}
  PROVE  p # {} /\ Same(The(p).text, t) /\ Same(The(p).modified, m)
<1>1. PICK e : e = [text |-> t, modified |-> m]
  OBVIOUS
<1>2. The(p) = e /\ p # {}
  BY <1>1, TheOne
<1>3. e.text = t /\ e.modified = m
  BY ONLY <1>1
<1> QED BY ONLY <1>2, <1>3 DEF Same

LEMMA FitThe ==
  ASSUME NEW w \in Worlds, NEW u \in Urls, FitAt(w, u), w.disk[u] # {}
  PROVE  w.disk[u] = {{}} /\ The(w.disk[u]) = {}
<1>1. w.disk[u] = {{}}
  BY DEF FitAt
<1>2. PICK x : x = {}
  OBVIOUS
<1>3. The({x}) = x
  BY TheOne
<1> QED BY <1>1, <1>2, <1>3

LEMMA OpenedFit ==
  ASSUME NEW w \in Worlds, NEW us, Fit(w), \A u \in us \cap Urls : w.disk[u] # {},
         NEW o, o = Opened(w, us)
  PROVE  Fit(o) /\ Opens(w, o)
<1>1. o.disk = w.disk /\ o.signal = w.signal
  <2>1. Same(o.disk, w.disk) /\ Same(o.signal, w.signal)
    BY OpenedIs
  <2> QED BY <2>1 DEF Same
<1>2. ASSUME NEW u \in Urls
      PROVE  /\ FitAt(o, u)
             /\ \/ w.page[u] # {} /\ o.page[u] = w.page[u]
                \/ w.page[u] = {} /\ (o.page[u] = {} \/ Has(o, u) = {})
  <2>1. CASE w.page[u] # {} \/ u \notin us
    <3>1. Same(o.page[u], w.page[u])
      BY <2>1, OpenedIs
    <3>2. FitAt(w, u)
      BY DEF Fit
    <3> QED BY <1>1, <2>1, <3>1, <3>2 DEF Same, FitAt, Has
  <2>2. CASE w.page[u] = {} /\ u \in us
    <3>1. w.disk[u] # {} /\ FitAt(w, u)
      BY <2>2 DEF Fit
    <3>2. The(w.disk[u]) = {}
      BY <3>1, FitThe
    <3>3. Same(o.page[u], {[text |-> The(w.disk[u]), modified |-> FALSE]})
      BY <2>2, <3>1, OpenedIs
    <3>4. PICK p : p = o.page[u]
      OBVIOUS
    <3>5. p = {[text |-> {}, modified |-> FALSE]}
      BY <3>2, <3>3, <3>4 DEF Same
    <3>6. The(p).text = {} /\ The(p).modified = FALSE
      BY ONLY <3>5, EditorHas DEF Same
    <3> QED BY <1>1, <2>2, <3>1, <3>4, <3>6 DEF FitAt, Has
  <2> QED BY <2>1, <2>2
<1> QED BY <1>1, <1>2 DEF Fit, Opens

LEMMA OpensBare ==
  ASSUME NEW w, NEW o, Opens(w, o), NEW T, NEW X, Bare(w, T, X)
  PROVE  Bare(o, T, X)
<1> QED BY DEF Opens, Bare, Shown, Has

LEMMA EditHeld ==
  ASSUME NEW w \in Worlds, NEW step \in Steps, step.kind = "edit", NEW redo \in BOOLEAN, NEW T,
         Fit(w), PlainStep(step, T), \A u \in DOMAIN step.docs : w.disk[u] # {},
         NEW r, r = Do(w, step, redo)
  PROVE  /\ Fit(r.w) /\ (~r.ok => Opens(w, r.w))
         /\ r.ok => \A u \in DOMAIN step.docs : r.w.page[u] # {} /\ Has(r.w, u) = To(step.docs[u], redo)
         /\ r.ok => \A u \in Urls \ DOMAIN step.docs : Shown(r.w, u) => Shown(w, u) \/ Has(r.w, u) = {}
         /\ r.ok => \A u \in Urls \ DOMAIN step.docs : Shown(w, u) => Has(r.w, u) = Has(w, u)
<1>1. PICK docs, o : docs = step.docs /\ o = Opened(w, DOMAIN docs)
  OBVIOUS
<1>2. docs \in Docs /\ DOMAIN docs \subseteq Urls
  BY <1>1, StepIs, DocsAre
<1>3. Fit(o) /\ Opens(w, o)
  <2>1. \A u \in DOMAIN docs \cap Urls : w.disk[u] # {}
    BY <1>1
  <2> QED BY <1>1, <2>1, OpenedFit
<1>4. /\ Same(r.w.disk, w.disk) /\ Same(r.w.signal, w.signal)
      /\ ~r.ok => Same(r.w, o)
      /\ \A u \in Urls \ DOMAIN docs : Same(r.w.page[u], o.page[u])
      /\ r.ok => \A u \in DOMAIN docs : Moves(o.page[u], r.w.page[u], docs[u], redo)
  BY <1>1, EditIs
<1>5. CASE ~r.ok
  BY <1>3, <1>4, <1>5 DEF Same
<1>6. CASE r.ok
  <2>1. o.disk = w.disk /\ o.signal = w.signal /\ r.w.disk = w.disk /\ r.w.signal = w.signal
    BY <1>3, <1>4 DEF Opens, Same
  <2>2. ASSUME NEW u \in DOMAIN docs
        PROVE  FitAt(r.w, u) /\ r.w.page[u] # {} /\ Has(r.w, u) = To(docs[u], redo)
    <3>1. PICK p, q, d : p = r.w.page[u] /\ q = o.page[u] /\ d = docs[u]
      OBVIOUS
    <3>2. p # {} /\ The(p).text = To(d, redo)
      BY <1>4, <1>6, <3>1 DEF Moves
    <3>3. u \in Urls /\ FitAt(o, u) /\ w.disk[u] # {}
      BY <1>1, <1>2, <1>3 DEF Fit
    <3>4. The(p).modified <=> The(p).text # {}
      <4>1. CASE p = q
        BY <3>1, <3>2, <3>3, <4>1 DEF FitAt, Has
      <4>2. CASE p = {[text |-> To(d, redo), modified |-> IF redo THEN TRUE ELSE d.dirty]}
        <5>1. PICK t, m : t = To(d, redo) /\ m = IF redo THEN TRUE ELSE d.dirty
          OBVIOUS
        <5>2. The(p).text = t /\ The(p).modified = m
          <6>1. p = {[text |-> t, modified |-> m]}
            BY ONLY <4>2, <5>1
          <6>2. Same(The(p).text, t) /\ Same(The(p).modified, m)
            BY ONLY <6>1, EditorHas
          <6> QED BY ONLY <6>2 DEF Same
        <5>3. d.before \subseteq d.after /\ (d.dirty <=> d.before # {}) /\ d.before # d.after
          BY <1>1, <3>1 DEF PlainStep, Sound
        <5>4. m <=> t # {}
          BY <5>1, <5>3 DEF To
        <5> QED BY <5>2, <5>4
      <4> QED BY <1>4, <1>6, <3>1, <4>1, <4>2 DEF Moves
    <3> QED BY <2>1, <3>1, <3>2, <3>3, <3>4 DEF FitAt, Has
  <2>3. ASSUME NEW u \in Urls \ DOMAIN docs
        PROVE  /\ FitAt(r.w, u)
               /\ Shown(r.w, u) => Shown(w, u) \/ Has(r.w, u) = {}
               /\ Shown(w, u) => Has(r.w, u) = Has(w, u)
    <3>1. r.w.page[u] = o.page[u]
      BY <1>4 DEF Same
    <3>2. FitAt(o, u)
      BY <1>3 DEF Fit
    <3>3. FitAt(r.w, u)
      BY <2>1, <3>1, <3>2 DEF FitAt, Has
    <3> QED BY <1>3, <2>1, <3>1, <3>3 DEF Opens, Shown, Has
  <2>4. Fit(r.w)
    BY <2>2, <2>3 DEF Fit
  <2> QED BY <1>1, <1>6, <2>2, <2>3, <2>4
<1> QED BY <1>5, <1>6

(* A step on files: what is shown is less, or a page without edits. *)
Hides(w, w2) == \A u \in Urls : Shown(w2, u) => (Shown(w, u) /\ w2.page[u] = w.page[u]) \/ Has(w2, u) = {}

LEMMA HidesBare ==
  ASSUME NEW w, NEW w2, Hides(w, w2), NEW T, NEW X, Bare(w, T, X)
  PROVE  Bare(w2, T, X)
<1> QED BY DEF Hides, Bare, Shown, Has

LEMMA TrashHeld ==
  ASSUME NEW w \in Worlds, NEW step \in Steps, step.kind # "edit", NEW T, Fit(w), PlainStep(step, T),
         NEW r, r = Trash(w, step)
  PROVE  /\ Fit(r.w) /\ PlainStep(r.step, T) /\ Hides(w, r.w) /\ (~r.ok => r.w = w)
         /\ r.ok => ~Shown(r.w, step.url)
         /\ r.w.signal \subseteq w.signal \cup {step.url}
<1>0. /\ r.ok \in BOOLEAN /\ SameFile(r.step, step) /\ Same(r.w.page, w.page) /\ step.url \in Urls
      /\ ~r.ok => Same(r.w, w) /\ Same(r.step, step)
      /\ r.ok => /\ Same(r.w.disk, [w.disk EXCEPT ![step.url] = {}])
                 /\ Same(r.w.signal, Reported(w, step.url))
                 /\ Same(r.step.trash, w.disk[step.url])
  BY TrashIs, StepIs
<1>1. r.ok \in BOOLEAN /\ SameFile(r.step, step) /\ r.w.page = w.page /\ step.url \in Urls
  BY <1>0 DEF Same
<1>2. CASE ~r.ok
  <2>1. r.w = w /\ r.step = step
    BY <1>0, <1>2 DEF Same
  <2> QED BY <1>2, <2>1 DEF Hides
<1>3. CASE r.ok
  <2>1. PICK u \in Urls : u = step.url
    BY <1>1
  <2>2. /\ r.w.disk = [w.disk EXCEPT ![u] = {}] /\ r.w.signal = Reported(w, u)
        /\ r.step.trash = w.disk[u]
    BY <1>0, <1>3, <2>1 DEF Same
  <2>3. w.disk \in [Urls -> Maybe(Texts)]
    BY DEF Worlds
  <2>4. r.w.disk[u] = {} /\ \A x \in Urls : x # u => r.w.disk[x] = w.disk[x]
    BY <2>2, <2>3
  <2>5. w.signal \subseteq r.w.signal /\ (w.page[u] # {} => u \in r.w.signal)
        /\ r.w.signal \subseteq w.signal \cup {u}
    BY <2>2 DEF Reported
  <2>6. Fit(r.w)
    <3>1. ASSUME NEW x \in Urls PROVE FitAt(r.w, x)
      <4>1. FitAt(w, x)
        BY DEF Fit
      <4> QED BY <1>1, <2>4, <2>5, <4>1 DEF FitAt, Has
    <3> QED BY <3>1 DEF Fit
  <2>7. PlainStep(r.step, T)
    <3>1. FitAt(w, u)
      BY DEF Fit
    <3> QED BY <1>1, <2>2, <3>1 DEF PlainStep, SameFile, FitAt
  <2>8. Hides(w, r.w)
    BY <1>1, <2>5 DEF Hides, Shown
  <2> QED BY <1>1, <1>3, <2>1, <2>5, <2>6, <2>7, <2>8 DEF Shown
<1> QED BY <1>1, <1>2, <1>3

LEMMA RestoreHeld ==
  ASSUME NEW w \in Worlds, NEW step \in Steps, step.kind # "edit", NEW T, Fit(w), PlainStep(step, T),
         NEW r, r = Restore(w, step)
  PROVE  /\ Fit(r.w) /\ r.step = step /\ Hides(w, r.w) /\ (~r.ok => r.w = w)
         /\ r.w.signal = w.signal
<1>0. /\ r.ok \in BOOLEAN /\ Same(r.step, step) /\ Same(r.w.page, w.page) /\ Same(r.w.signal, w.signal)
      /\ step.url \in Urls /\ (~r.ok => Same(r.w, w))
      /\ r.ok => Same(r.w.disk, [w.disk EXCEPT ![step.url] = step.trash]) /\ step.trash # {}
  BY RestoreIs, StepIs
<1>1. r.ok \in BOOLEAN /\ r.step = step /\ r.w.page = w.page /\ r.w.signal = w.signal /\ step.url \in Urls
  BY <1>0 DEF Same
<1>2. CASE ~r.ok
  <2>1. r.w = w
    BY <1>0, <1>2 DEF Same
  <2> QED BY <1>1, <1>2, <2>1 DEF Hides
<1>3. CASE r.ok
  <2>1. PICK u \in Urls : u = step.url
    BY <1>1
  <2>2. r.w.disk = [w.disk EXCEPT ![u] = step.trash] /\ step.trash # {} /\ step.trash \subseteq {{}}
    BY <1>0, <1>3, <2>1 DEF Same, PlainStep
  <2>3. w.disk \in [Urls -> Maybe(Texts)]
    BY DEF Worlds
  <2>4. r.w.disk[u] = step.trash /\ \A x \in Urls : x # u => r.w.disk[x] = w.disk[x]
    BY <2>2, <2>3
  <2>6. Fit(r.w)
    <3>1. ASSUME NEW x \in Urls PROVE FitAt(r.w, x)
      <4>1. FitAt(w, x)
        BY DEF Fit
      <4> QED BY <1>1, <2>2, <2>4, <4>1 DEF FitAt, Has
    <3> QED BY <3>1 DEF Fit
  <2>8. Hides(w, r.w)
    BY <1>1 DEF Hides, Shown
  <2> QED BY <1>1, <1>3, <2>6, <2>8
<1> QED BY <1>1, <1>2, <1>3

LEMMA RenameHeld ==
  ASSUME NEW w \in Worlds, NEW from \in Urls, NEW to \in Urls, NEW step \in Steps, NEW T,
         Fit(w), NEW r, r = Rename(w, from, to, step)
  PROVE  /\ Fit(r.w) /\ r.step = step /\ Hides(w, r.w) /\ (~r.ok => r.w = w)
         /\ r.w.signal \subseteq w.signal \cup {from}
<1>0. /\ r.ok \in BOOLEAN /\ Same(r.step, step) /\ Same(r.w.page, w.page) /\ (~r.ok => Same(r.w, w))
      /\ r.ok => /\ Same(r.w.disk, [w.disk EXCEPT ![from] = {}, ![to] = w.disk[from]])
                 /\ Same(r.w.signal, Reported(w, from)) /\ w.disk[from] # {} /\ w.disk[to] = {}
  BY RenameIs
<1>1. r.ok \in BOOLEAN /\ r.step = step /\ r.w.page = w.page
  BY <1>0 DEF Same
<1>2. CASE ~r.ok
  <2>1. r.w = w
    BY <1>0, <1>2 DEF Same
  <2> QED BY <1>1, <1>2, <2>1 DEF Hides
<1>3. CASE r.ok
  <2>2. /\ r.w.disk = [w.disk EXCEPT ![from] = {}, ![to] = w.disk[from]]
        /\ r.w.signal = Reported(w, from) /\ w.disk[from] # {} /\ w.disk[to] = {}
    BY <1>0, <1>3 DEF Same
  <2>3. w.disk \in [Urls -> Maybe(Texts)]
    BY DEF Worlds
  <2>4. /\ r.w.disk[from] = {} /\ r.w.disk[to] = w.disk[from]
        /\ \A x \in Urls : x # from /\ x # to => r.w.disk[x] = w.disk[x]
    BY <2>2, <2>3
  <2>5. w.signal \subseteq r.w.signal /\ (w.page[from] # {} => from \in r.w.signal)
        /\ r.w.signal \subseteq w.signal \cup {from}
    BY <2>2 DEF Reported
  <2>6. Fit(r.w)
    <3>1. ASSUME NEW x \in Urls PROVE FitAt(r.w, x)
      <4>1. FitAt(w, x) /\ FitAt(w, from)
        BY DEF Fit
      <4> QED BY <1>1, <2>2, <2>4, <2>5, <4>1 DEF FitAt, Has
    <3> QED BY <3>1 DEF Fit
  <2>8. Hides(w, r.w)
    BY <1>1, <2>5 DEF Hides, Shown
  <2> QED BY <1>1, <1>3, <2>5, <2>6, <2>8
<1> QED BY <1>1, <1>2, <1>3

LEMMA CreateHeld ==
  ASSUME NEW w \in Worlds, NEW step \in Steps, step.kind # "edit", NEW T, Fit(w), PlainStep(step, T),
         NEW r, r = Create(w, step)
  PROVE  /\ Fit(r.w) /\ r.step = step /\ Hides(w, r.w) /\ (~r.ok => r.w = w)
         /\ r.w.signal = w.signal
<1>0. /\ r.ok \in BOOLEAN /\ Same(r.step, step) /\ step.url \in Urls /\ (~r.ok => Same(r.w, w))
      /\ r.ok => /\ Same(r.w.signal, w.signal)
                 /\ Same(r.w.disk, [w.disk EXCEPT ![step.url] = IF step.trash = {} THEN {{}} ELSE step.trash])
                 /\ \A u \in Urls :
                      /\ w.page[u] # {} \/ u # step.url => Same(r.w.page[u], w.page[u])
                      /\ w.page[u] = {} /\ u = step.url =>
                           Same(r.w.page[u], {[text |-> The(r.w.disk[u]), modified |-> FALSE]})
  BY CreateIs, StepIs
<1>1. r.ok \in BOOLEAN /\ r.step = step /\ step.url \in Urls
  BY <1>0 DEF Same
<1>2. CASE ~r.ok
  <2>1. r.w = w
    BY <1>0, <1>2 DEF Same
  <2> QED BY <1>1, <1>2, <2>1 DEF Hides
<1>3. CASE r.ok
  <2>1. PICK u \in Urls : u = step.url
    BY <1>1
  <2>2. PICK new : new = IF step.trash = {} THEN {{}} ELSE step.trash
    OBVIOUS
  <2>3. new = {{}}
    BY <2>2 DEF PlainStep
  <2>4. /\ r.w.disk = [w.disk EXCEPT ![u] = new] /\ r.w.signal = w.signal
        /\ \A x \in Urls : w.page[x] # {} \/ x # u => r.w.page[x] = w.page[x]
        /\ w.page[u] = {} => r.w.page[u] = {[text |-> The(r.w.disk[u]), modified |-> FALSE]}
    BY <1>0, <1>3, <2>1, <2>2 DEF Same
  <2>5. w.disk \in [Urls -> Maybe(Texts)]
    BY DEF Worlds
  <2>6. r.w.disk[u] = {{}} /\ \A x \in Urls : x # u => r.w.disk[x] = w.disk[x]
    BY <2>3, <2>4, <2>5
  <2>7. The(r.w.disk[u]) = {}
    <3>1. PICK x : x = {}
      OBVIOUS
    <3>2. The({x}) = x
      BY TheOne
    <3> QED BY <2>6, <3>1, <3>2
  <2>8. w.page[u] = {} => The(r.w.page[u]).text = {} /\ The(r.w.page[u]).modified = FALSE
    <3> SUFFICES ASSUME w.page[u] = {} PROVE The(r.w.page[u]).text = {} /\ The(r.w.page[u]).modified = FALSE
      OBVIOUS
    <3>1. PICK p : p = r.w.page[u]
      OBVIOUS
    <3>2. p = {[text |-> {}, modified |-> FALSE]}
      BY <2>4, <2>7, <3>1
    <3>3. The(p).text = {} /\ The(p).modified = FALSE
      BY ONLY <3>2, EditorHas DEF Same
    <3> QED BY <3>1, <3>3
  <2>9. Fit(r.w)
    <3>1. ASSUME NEW x \in Urls PROVE FitAt(r.w, x)
      <4>1. FitAt(w, x)
        BY DEF Fit
      <4>2. CASE x = u /\ w.page[u] = {}
        BY <2>6, <2>8, <4>2 DEF FitAt, Has
      <4>3. CASE ~(x = u /\ w.page[u] = {})
        <5>1. r.w.page[x] = w.page[x]
          BY <2>4, <4>3
        <5>2. x # u => r.w.disk[x] = w.disk[x]
          BY <2>6
        <5> QED BY <2>4, <2>6, <4>1, <5>1, <5>2 DEF FitAt, Has
      <4> QED BY <4>2, <4>3
    <3> QED BY <3>1 DEF Fit
  <2>10. Hides(w, r.w)
    <3>1. ASSUME NEW x \in Urls, Shown(r.w, x)
          PROVE  (Shown(w, x) /\ r.w.page[x] = w.page[x]) \/ Has(r.w, x) = {}
      <4>2. CASE x = u /\ w.page[u] = {}
        BY <2>8, <4>2 DEF Has
      <4>3. CASE ~(x = u /\ w.page[u] = {})
        <5>1. r.w.page[x] = w.page[x]
          BY <2>4, <4>3
        <5> QED BY <2>4, <3>1, <5>1 DEF Shown
      <4> QED BY <4>2, <4>3
    <3> QED BY <3>1 DEF Hides
  <2> QED BY <1>1, <1>3, <2>4, <2>9, <2>10
<1> QED BY <1>1, <1>2, <1>3

(* What a step that works makes of the pages that are shown: the documents *)
(* that may have edits before it, and those after it.                      *)
Drops(step, redo) ==
  IF ~redo THEN EditDocs(step) ELSE IF step.kind = "delete" THEN {step.url} ELSE {}
Takes(step) == IF step.kind \in {"delete", "rename"} THEN {step.url} ELSE {}
Shows(step, w) ==
  step.kind = "edit" =>
    \A u \in DOMAIN step.docs : w.page[u] # {} /\ Has(w, u) = step.docs[u].after

Effect(step, redo, T, w, w2) ==
  /\ Bare(w, T, Drops(step, redo)) => Bare(w2, T, IF redo THEN EditDocs(step) ELSE {})
  /\ redo => Shows(step, w2) /\ w2.signal \subseteq w.signal \cup Takes(step)

LEMMA SameOpens == ASSUME NEW w PROVE Opens(w, w)
<1> QED BY DEF Opens

LEMMA BareMore ==
  ASSUME NEW w, NEW T, NEW X, Bare(w, T, X), NEW Y, X \subseteq Y
  PROVE  Bare(w, T, Y)
<1> QED BY DEF Bare

LEMMA FileEffect ==
  ASSUME NEW w, NEW w2, NEW step, step.kind # "edit", NEW redo \in BOOLEAN, NEW T, Hides(w, w2),
         redo => w2.signal \subseteq w.signal \cup Takes(step),
         redo /\ step.kind = "delete" => ~Shown(w2, step.url)
  PROVE  Effect(step, redo, T, w, w2)
<1>1. ASSUME Bare(w, T, Drops(step, redo)) PROVE Bare(w2, T, {})
  <2>1. Bare(w2, T, Drops(step, redo))
    BY <1>1, HidesBare
  <2> QED BY <2>1 DEF Bare, Drops, EditDocs
<1> QED BY <1>1 DEF Effect, Shows, EditDocs

LEMMA EditEffect ==
  ASSUME NEW w \in Worlds, NEW step \in Steps, step.kind = "edit", NEW redo \in BOOLEAN, NEW T,
         Fit(w), PlainStep(step, T), \A u \in DOMAIN step.docs : w.disk[u] # {},
         NEW r, r = Do(w, step, redo), r.ok
  PROVE  Effect(step, redo, T, w, r.w)
<1>1. PICK docs : docs = step.docs
  OBVIOUS
<1>2. /\ \A u \in DOMAIN docs : r.w.page[u] # {} /\ Has(r.w, u) = To(docs[u], redo)
      /\ \A u \in Urls \ DOMAIN docs : Shown(r.w, u) => Shown(w, u) \/ Has(r.w, u) = {}
      /\ \A u \in Urls \ DOMAIN docs : Shown(w, u) => Has(r.w, u) = Has(w, u)
  BY <1>1, EditHeld
<1>3. Same(r.w.signal, w.signal)
  <2>1. PICK o : o = Opened(w, DOMAIN docs)
    OBVIOUS
  <2> QED BY <1>1, <2>1, EditIs
<1>4. CASE redo
  <2>1. Shows(step, r.w)
    BY <1>1, <1>2, <1>4 DEF Shows, To
  <2>2. ASSUME Bare(w, T, {}) PROVE Bare(r.w, T, DOMAIN docs)
    BY <1>2, <2>2 DEF Bare
  <2>3. Drops(step, redo) = {} /\ EditDocs(step) = DOMAIN docs
    BY <1>1, <1>4 DEF Drops, EditDocs
  <2>4. r.w.signal = w.signal
    BY <1>3 DEF Same
  <2> QED BY <1>4, <2>1, <2>2, <2>3, <2>4 DEF Effect
<1>5. CASE ~redo
  <2>1. Drops(step, redo) = DOMAIN docs
    BY <1>1, <1>5 DEF Drops, EditDocs
  <2>2. \A u \in DOMAIN docs : u \notin T => Has(r.w, u) = {}
    BY <1>1, <1>2, <1>5 DEF PlainStep, To
  <2>3. ASSUME Bare(w, T, DOMAIN docs) PROVE Bare(r.w, T, {})
    BY <1>2, <2>2, <2>3 DEF Bare
  <2> QED BY <1>5, <2>1, <2>3 DEF Effect
<1> QED BY <1>4, <1>5

DoesHeld(step, redo, T, w, r) ==
  /\ Fit(r.w) /\ PlainStep(r.step, T)
  /\ IF r.ok THEN Effect(step, redo, T, w, r.w) ELSE Opens(w, r.w)

LEMMA DoHeld ==
  ASSUME NEW w \in Worlds, NEW step \in Steps, NEW redo \in BOOLEAN, NEW T, Fit(w), PlainStep(step, T),
         step.kind = "edit" => \A u \in DOMAIN step.docs : w.disk[u] # {},
         NEW r, r = Do(w, step, redo)
  PROVE  DoesHeld(step, redo, T, w, r)
<1>0. Opens(w, w)
  BY SameOpens
<1>1. CASE step.kind = "edit"
  <2>1. Fit(r.w) /\ (~r.ok => Opens(w, r.w))
    BY <1>1, EditHeld
  <2>2. r.ok => Effect(step, redo, T, w, r.w)
    BY <1>1, EditEffect
  <2>3. r.step = step
    BY <1>1, DoIs
  <2> QED BY <2>1, <2>2, <2>3 DEF DoesHeld
<1>2. CASE step.kind = "create" /\ redo
  <2>1. r = Create(w, step) /\ step.kind # "edit"
    BY <1>2 DEF Do
  <2>2. /\ Fit(r.w) /\ r.step = step /\ Hides(w, r.w) /\ (~r.ok => r.w = w) /\ r.w.signal = w.signal
    BY <2>1, CreateHeld
  <2>3. Effect(step, redo, T, w, r.w)
    BY <1>2, <2>1, <2>2, FileEffect
  <2> QED BY <1>0, <2>2, <2>3 DEF DoesHeld
<1>3. CASE step.kind = "delete" /\ ~redo
  <2>1. r = Restore(w, step) /\ step.kind # "edit"
    BY <1>3 DEF Do
  <2>2. /\ Fit(r.w) /\ r.step = step /\ Hides(w, r.w) /\ (~r.ok => r.w = w) /\ r.w.signal = w.signal
    BY <2>1, RestoreHeld
  <2>3. Effect(step, redo, T, w, r.w)
    BY <1>3, <2>1, <2>2, FileEffect
  <2> QED BY <1>0, <2>2, <2>3 DEF DoesHeld
<1>4. CASE (step.kind = "create" /\ ~redo) \/ (step.kind = "delete" /\ redo)
  <2>1. r = Trash(w, step) /\ step.kind # "edit"
    BY <1>4 DEF Do
  <2>2. /\ Fit(r.w) /\ PlainStep(r.step, T) /\ Hides(w, r.w) /\ (~r.ok => r.w = w)
        /\ r.ok => ~Shown(r.w, step.url)
        /\ r.w.signal \subseteq w.signal \cup {step.url}
    BY <2>1, TrashHeld
  <2>3. redo => r.w.signal \subseteq w.signal \cup Takes(step)
    BY <1>4, <2>2 DEF Takes
  <2>4. r.ok => Effect(step, redo, T, w, r.w)
    BY <2>1, <2>2, <2>3, FileEffect
  <2> QED BY <1>0, <2>2, <2>4 DEF DoesHeld
<1>5. CASE step.kind = "rename"
  <2>1. PICK from \in Urls, to \in Urls :
          /\ from = IF redo THEN step.url ELSE step.to
          /\ to = IF redo THEN step.to ELSE step.url
    BY <1>5, StepIs
  <2>2. r = Rename(w, from, to, step) /\ step.kind # "edit"
    BY <1>5, <2>1 DEF Do
  <2>3. /\ Fit(r.w) /\ r.step = step /\ Hides(w, r.w) /\ (~r.ok => r.w = w)
        /\ r.w.signal \subseteq w.signal \cup {from}
    BY <2>2, RenameHeld
  <2>4. redo => r.w.signal \subseteq w.signal \cup Takes(step)
    BY <1>5, <2>1, <2>3 DEF Takes
  <2>5. ~(redo /\ step.kind = "delete")
    BY <1>5
  <2>6. Effect(step, redo, T, w, r.w)
    BY <2>2, <2>3, <2>4, <2>5, FileEffect
  <2> QED BY <1>0, <2>3, <2>6 DEF DoesHeld
<1> QED BY <1>1, <1>2, <1>3, <1>4, <1>5, StepIs

(* Steps that differ at most in what is in the trash. *)
SameStep(s, t) ==
  /\ s.kind = t.kind
  /\ s.kind = "edit" => s = t
  /\ s.kind # "edit" => s.url = t.url /\ s.to = t.to

LEMMA SameEffect ==
  ASSUME NEW s, NEW t, SameStep(s, t), NEW redo, NEW T, NEW w, NEW w2, Effect(s, redo, T, w, w2)
  PROVE  Effect(t, redo, T, w, w2)
<1>1. CASE s.kind = "edit"
  BY <1>1 DEF SameStep
<1>2. CASE s.kind # "edit"
  <2>1. s.kind = t.kind /\ s.url = t.url
    BY <1>2 DEF SameStep
  <2>2. /\ Drops(s, redo) = Drops(t, redo) /\ EditDocs(s) = EditDocs(t) /\ Takes(s) = Takes(t)
        /\ Shows(t, w2)
    BY <1>2, <2>1 DEF Drops, EditDocs, Takes, Shows
  <2> QED BY <2>2 DEF Effect
<1> QED BY <1>1, <1>2

LEMMA DoAlike ==
  ASSUME NEW w \in Worlds, NEW step \in Steps, NEW redo \in BOOLEAN, NEW r, r = Do(w, step, redo)
  PROVE  SameStep(r.step, step) /\ r.step \in Steps
<1>1. r.step \in Steps
  BY DoIs
<1>2. /\ r.step.kind = step.kind
      /\ step.kind = "edit" => r.step = step
  BY DoIs
<1>3. /\ step.kind # "edit" => r.step.url = step.url
      /\ step.kind # "edit" => r.step.to = step.to
  BY DoIs
<1>4. PICK s : s = r.step
  OBVIOUS
<1>5. /\ s.kind = step.kind /\ (step.kind = "edit" => s = step)
      /\ step.kind # "edit" => s.url = step.url /\ s.to = step.to
  BY ONLY <1>2, <1>3, <1>4
<1>6. SameStep(s, step)
  BY ONLY <1>5 DEF SameStep
<1> QED BY ONLY <1>1, <1>4, <1>6

Alike(steps, old, T) ==
  /\ Len(steps) = Len(old)
  /\ \A i \in 1 .. Len(old) : SameStep(steps[i], old[i]) /\ PlainStep(steps[i], T)

LEMMA AlikeKept ==
  ASSUME NEW steps \in Seq(Steps), NEW old, NEW T, Alike(steps, old, T), NEW i \in 1 .. Len(steps), NEW step,
         SameStep(step, steps[i]), PlainStep(step, T)
  PROVE  Alike([steps EXCEPT ![i] = step], old, T)
<1>1. PICK new : new = [steps EXCEPT ![i] = step]
  OBVIOUS
<1>2. Len(new) = Len(steps) /\ \A n \in 1 .. Len(steps) : new[n] = IF n = i THEN step ELSE steps[n]
  BY <1>1
<1>3. ASSUME NEW n \in 1 .. Len(steps) PROVE SameStep(new[n], old[n]) /\ PlainStep(new[n], T)
  <2>1. SameStep(steps[n], old[n]) /\ PlainStep(steps[n], T)
    BY DEF Alike
  <2>2. CASE n = i
    <3>1. new[n] = step
      BY <1>2, <2>2
    <3> QED BY <2>1, <2>2, <3>1 DEF SameStep
  <2>3. CASE n # i
    BY <1>2, <2>1, <2>3
  <2> QED BY <2>2, <2>3
<1> QED BY <1>1, <1>2, <1>3 DEF Alike

(* What a run keeps of the contents. *)
HeldRun(n, P, redo, old, T, run) ==
  Walks(n, P, redo, run) /\ Alike(run.steps, old, T) /\ Fit(run.w)

LEMMA LeadsOver ==
  ASSUME NEW step, NEW d, NEW e, Leads(step, d, e), step.kind = "edit", NEW u \in DOMAIN step.docs
  PROVE  d[u] # {} /\ e = d
<1> QED BY DEF Leads, Over

LEMMA StepAt ==
  ASSUME NEW n \in Nat, NEW P \in [0 .. n -> Files], NEW redo \in BOOLEAN, NEW old, NEW T, NEW run,
         HeldRun(n, P, redo, old, T, run), NEW i \in 1 .. n, NEW forth \in BOOLEAN,
         run.w.disk = P[IF forth THEN i - 1 ELSE i], NEW r, r = Do(run.w, run.steps[i], forth)
  PROVE  /\ DoesHeld(old[i], forth, T, run.w, r) /\ SameStep(r.step, run.steps[i]) /\ r.step \in Steps
         /\ i \in 1 .. Len(run.steps) /\ run.steps \in Seq(Steps) /\ run \in Runs
<1>1. /\ run \in Runs /\ run.w \in Worlds /\ run.steps \in Seq(Steps) /\ i \in 1 .. Len(run.steps)
      /\ run.steps[i] \in Steps /\ Fit(run.w) /\ Alike(run.steps, old, T) /\ Path(run.steps, P)
      /\ Len(run.steps) = n
  BY DEF HeldRun, Walks, Runs
<1>2. PICK step, d, e : step = run.steps[i] /\ d = P[i - 1] /\ e = P[i]
  OBVIOUS
<1>3. Leads(step, d, e) /\ SameStep(step, old[i]) /\ PlainStep(step, T)
  BY <1>1, <1>2 DEF Path, Alike
<1>4. step.kind = "edit" => \A u \in DOMAIN step.docs : run.w.disk[u] # {}
  BY <1>2, <1>3, LeadsOver
<1>5. DoesHeld(step, forth, T, run.w, r)
  BY <1>1, <1>2, <1>3, <1>4, DoHeld
<1>6. DoesHeld(old[i], forth, T, run.w, r)
  <2>1. PICK o, w2 : o = old[i] /\ w2 = r.w
    OBVIOUS
  <2>2. SameStep(step, o) /\ (r.ok => Effect(step, forth, T, run.w, w2))
    BY <1>3, <1>5, <2>1 DEF DoesHeld
  <2>3. r.ok => Effect(o, forth, T, run.w, w2)
    BY <2>2, SameEffect
  <2> QED BY <1>5, <2>1, <2>3 DEF DoesHeld
<1>7. SameStep(r.step, step) /\ r.step \in Steps
  BY <1>1, <1>2, DoAlike
<1> QED BY <1>1, <1>2, <1>6, <1>7

(* A step of a run that is tried. *)
HeldTo(n, P, redo, old, T, k, i, run, new) ==
  /\ HeldRun(n, P, redo, old, T, new) /\ WalkedTo(n, P, redo, k, run, new)
  /\ IF new.ok THEN Effect(old[i], redo, T, run.w, new.w) ELSE Opens(run.w, new.w)

LEMMA TriedHeld ==
  ASSUME NEW n \in Nat, NEW P \in [0 .. n -> Files], NEW redo \in BOOLEAN, NEW old, NEW T, NEW run,
         HeldRun(n, P, redo, old, T, run),
         NEW k \in 1 .. n, run.ok, run.w.disk = P[Pos(n, redo, k - 1)], NEW i, i = IF redo THEN k ELSE n + 1 - k,
         NEW new, new = Tried(run, i, redo)
  PROVE  HeldTo(n, P, redo, old, T, k, i, run, new)
<1>1. i \in 1 .. n /\ run.w.disk = P[IF redo THEN i - 1 ELSE i]
  BY DEF Pos
<1>2. WalkedTo(n, P, redo, k, run, new)
  <2>1. Walks(n, P, redo, run)
    BY DEF HeldRun
  <2> QED BY <2>1, WalksTo
<1>3. PICK r : r = Do(run.w, run.steps[i], redo)
  OBVIOUS
<1>4. /\ DoesHeld(old[i], redo, T, run.w, r) /\ SameStep(r.step, run.steps[i]) /\ r.step \in Steps
      /\ i \in 1 .. Len(run.steps) /\ run.steps \in Seq(Steps) /\ run \in Runs
  BY <1>1, <1>3, StepAt
<1>5. new.ok = r.ok /\ new.w = r.w /\ new.steps = [run.steps EXCEPT ![i] = r.step]
  <2>1. TriedTo(run, i, r, new)
    BY <1>3, <1>4, TriedIs
  <2> QED BY <2>1 DEF TriedTo
<1>6. Alike(new.steps, old, T)
  <2>1. Alike(run.steps, old, T)
    BY DEF HeldRun
  <2>2. PICK steps, step : steps = run.steps /\ step = r.step
    OBVIOUS
  <2>3. /\ steps \in Seq(Steps) /\ Alike(steps, old, T) /\ i \in 1 .. Len(steps)
        /\ SameStep(step, steps[i]) /\ PlainStep(step, T)
    BY <1>4, <2>1, <2>2 DEF DoesHeld
  <2>4. Alike([steps EXCEPT ![i] = step], old, T)
    BY ONLY <2>3, AlikeKept
  <2> QED BY <1>5, <2>2, <2>4
<1>7. HeldRun(n, P, redo, old, T, new)
  BY <1>2, <1>4, <1>5, <1>6 DEF HeldRun, WalkedTo, DoesHeld
<1> QED BY <1>2, <1>4, <1>5, <1>7 DEF HeldTo, DoesHeld

(* A step of a run that is gone back. *)
HeldBack(n, P, redo, back, old, T, m, i, run, new) ==
  /\ HeldRun(n, P, redo, old, T, new) /\ new.ok = run.ok /\ new.done = run.done
  /\ new.w.disk = P[Pos(n, redo, m - 1)]
  /\ run.torn => new.torn
  /\ new.torn \/ Effect(old[i], back, T, run.w, new.w)

LEMMA GoneBackHeld ==
  ASSUME NEW n \in Nat, NEW P \in [0 .. n -> Files], NEW redo \in BOOLEAN, NEW back \in BOOLEAN, back = ~redo,
         NEW old, NEW T, NEW run, HeldRun(n, P, redo, old, T, run),
         NEW m \in 1 .. n, run.w.disk = P[Pos(n, redo, m)], NEW i, i = IF redo THEN m ELSE n + 1 - m,
         NEW new, new = GoneBack(run, i, redo)
  PROVE  HeldBack(n, P, redo, back, old, T, m, i, run, new)
<1>2. i \in 1 .. n /\ run.w.disk = P[IF back THEN i - 1 ELSE i]
  <2>1. CASE redo
    <3>1. ~back /\ i = m /\ Pos(n, redo, m) = i
      BY <2>1 DEF Pos
    <3> QED BY <3>1
  <2>2. CASE ~redo
    <3>1. back /\ i = n + 1 - m
      BY <2>2
    <3>2. Pos(n, redo, m) = n - m /\ i - 1 = n - m /\ i \in 1 .. n
      BY <2>2, <3>1 DEF Pos
    <3> QED BY <3>1, <3>2
  <2> QED BY <2>1, <2>2
<1>3. Walks(n, P, redo, new) /\ new.ok = run.ok /\ new.w.disk = P[Pos(n, redo, m - 1)]
  <2>1. Walks(n, P, redo, run)
    BY DEF HeldRun
  <2> QED BY <2>1, WalksBackTo
<1>4. PICK r : r = Do(run.w, run.steps[i], back)
  OBVIOUS
<1>5. /\ DoesHeld(old[i], back, T, run.w, r) /\ SameStep(r.step, run.steps[i]) /\ r.step \in Steps
      /\ i \in 1 .. Len(run.steps) /\ run.steps \in Seq(Steps) /\ run \in Runs
  BY ONLY <1>2, <1>4, n \in Nat, P \in [0 .. n -> Files], redo \in BOOLEAN, back \in BOOLEAN,
          HeldRun(n, P, redo, old, T, run), StepAt
<1>6. /\ new.w = r.w /\ new.steps = [run.steps EXCEPT ![i] = r.step]
      /\ new.torn = (run.torn \/ ~r.ok) /\ new.done = run.done
  <2>1. BackTo(run, i, r, new)
    BY <1>4, <1>5, GoneBackIs
  <2> QED BY <2>1 DEF BackTo
<1>7. Alike(new.steps, old, T)
  <2>1. Alike(run.steps, old, T)
    BY DEF HeldRun
  <2>2. PICK steps, step : steps = run.steps /\ step = r.step
    OBVIOUS
  <2>3. /\ steps \in Seq(Steps) /\ Alike(steps, old, T) /\ i \in 1 .. Len(steps)
        /\ SameStep(step, steps[i]) /\ PlainStep(step, T)
    BY <1>5, <2>1, <2>2 DEF DoesHeld
  <2>4. Alike([steps EXCEPT ![i] = step], old, T)
    BY ONLY <2>3, AlikeKept
  <2> QED BY <1>6, <2>2, <2>4
<1>8. HeldRun(n, P, redo, old, T, new)
  BY <1>3, <1>5, <1>6, <1>7 DEF HeldRun, DoesHeld
<1>9. new.torn \/ Effect(old[i], back, T, run.w, new.w)
  BY <1>5, <1>6 DEF DoesHeld
<1> QED BY <1>3, <1>6, <1>8, <1>9 DEF HeldBack

(* The documents of an edit that is step m. *)
DocsAt(steps, m) == IF m = 0 THEN {} ELSE EditDocs(steps[m])

(* An edit that is not the last step is of a document that is deleted      *)
(* next; a file that is taken away stays away.                             *)
Flushed(step, next) == EditDocs(step) # {} => next.kind = "delete" /\ EditDocs(step) \subseteq {next.url}
GoneFrom(step, P, i, n) == \A u \in Takes(step) : \A m \in i .. n : P[m][u] = {}
Shape(steps, P, T) ==
  \A i \in 1 .. Len(steps) : /\ PlainStep(steps[i], T) /\ GoneFrom(steps[i], P, i, Len(steps))
                             /\ i < Len(steps) => Flushed(steps[i], steps[i + 1])

(* What waits for the watcher is gone, and stays away. *)
Away(w, P, k, n) == \A u \in w.signal : \A m \in k .. n : P[m][u] = {}

LEMMA RedoStep ==
  ASSUME NEW n \in Nat, NEW P, NEW steps, Len(steps) = n, NEW T, Shape(steps, P, T), NEW k \in 1 .. n,
         NEW w, Bare(w, T, DocsAt(steps, k - 1)), Away(w, P, k - 1, n),
         NEW w2, Effect(steps[k], TRUE, T, w, w2)
  PROVE  Bare(w2, T, DocsAt(steps, k)) /\ Shows(steps[k], w2) /\ Away(w2, P, k, n)
<1>1. PICK step : step = steps[k]
  OBVIOUS
<1>2. DocsAt(steps, k - 1) \subseteq Drops(step, TRUE)
  <2>1. CASE k = 1
    BY <2>1 DEF DocsAt
  <2>2. CASE k # 1
    <3>1. k - 1 \in 1 .. n /\ k - 1 < Len(steps) /\ k - 1 # 0 /\ (k - 1) + 1 = k
      BY <2>2
    <3>2. PICK j \in 1 .. n : j = k - 1
      BY <3>1
    <3>3. j \in 1 .. Len(steps) /\ j < Len(steps) /\ j # 0 /\ j + 1 = k
      BY <3>1, <3>2
    <3>4. Flushed(steps[j], step)
      BY <1>1, <3>3 DEF Shape
    <3> QED BY <3>2, <3>3, <3>4 DEF Flushed, DocsAt, EditDocs, Drops
  <2> QED BY <2>1, <2>2
<1>3. Bare(w, T, Drops(step, TRUE))
  BY <1>2, BareMore
<1>4. Bare(w2, T, EditDocs(step)) /\ Shows(step, w2) /\ w2.signal \subseteq w.signal \cup Takes(step)
  BY <1>1, <1>3 DEF Effect
<1>5. DocsAt(steps, k) = EditDocs(step)
  BY <1>1 DEF DocsAt
<1>6. GoneFrom(step, P, k, n)
  BY <1>1 DEF Shape
<1>7. ASSUME NEW u \in w2.signal, NEW m \in k .. n PROVE P[m][u] = {}
  <2>1. CASE u \in w.signal
    <3>1. m \in k - 1 .. n
      OBVIOUS
    <3> QED BY <2>1, <3>1 DEF Away
  <2>2. CASE u \in Takes(step)
    BY <1>6, <2>2 DEF GoneFrom
  <2> QED BY <1>4, <2>1, <2>2
<1> QED BY <1>1, <1>4, <1>5, <1>7 DEF Away

LEMMA BackStep ==
  ASSUME NEW n \in Nat, NEW steps, Len(steps) = n, NEW T, NEW m \in 1 .. n,
         NEW w, Bare(w, T, DocsAt(steps, m)), NEW w2, Effect(steps[m], FALSE, T, w, w2)
  PROVE  Bare(w2, T, {})
<1>1. DocsAt(steps, m) = Drops(steps[m], FALSE)
  BY DEF DocsAt, Drops
<1> QED BY <1>1 DEF Effect

LEMMA AlikeSelf ==
  ASSUME NEW steps, NEW P, NEW T, Shape(steps, P, T)
  PROVE  Alike(steps, steps, T)
<1> QED BY DEF Shape, Alike, SameStep

LEMMA BegunHeld ==
  ASSUME NEW w \in Worlds, NEW steps \in Seq(Steps), NEW P, Path(steps, P), Clean(w), Fit(w), NEW T,
         Shape(steps, P, T), NEW redo, NEW n, n = Len(steps), NEW run, run = Begun(w, steps)
  PROVE  /\ HeldRun(n, P, redo, steps, T, run) /\ run \in Runs
         /\ run.w = w /\ run.done = 0
<1>1. run = [ok |-> TRUE, w |-> w, steps |-> steps, done |-> 0, torn |-> FALSE]
  BY DEF Begun
<1>2. run.w = w /\ run.steps = steps /\ run.done = 0
  BY ONLY <1>1
<1>3. run \in Runs
  BY BegunIs
<1>4. Alike(run.steps, steps, T)
  BY <1>2, AlikeSelf
<1> QED BY <1>2, <1>3, <1>4 DEF HeldRun, Walks

LEMMA RunIs == ASSUME NEW run \in Runs PROVE run.done \in Nat /\ run.ok \in BOOLEAN
<1> QED BY DEF Runs

(* The turn is redone: a run that has tried k steps, one that has gone     *)
(* back to step k, and how it ends.                                        *)
Redoing(n, P, steps, T, k, run) ==
  /\ HeldRun(n, P, TRUE, steps, T, run) /\ run.w.disk = P[run.done] /\ run.done <= k
  /\ Bare(run.w, T, DocsAt(steps, run.done))
  /\ run.ok => run.done = k /\ (k > 0 => Shows(steps[k], run.w)) /\ Away(run.w, P, k, n)
RedoBack(n, P, steps, T, k, run) ==
  /\ HeldRun(n, P, TRUE, steps, T, run) /\ ~run.ok /\ run.w.disk = P[k]
  /\ run.torn \/ Bare(run.w, T, DocsAt(steps, k))
Redone(n, P, steps, T, ran) ==
  /\ HeldRun(n, P, TRUE, steps, T, ran)
  /\ ran.ok => /\ Bare(ran.w, T, DocsAt(steps, n)) /\ (n > 0 => Shows(steps[n], ran.w))
               /\ Away(ran.w, P, n, n) /\ ran.w.disk = P[n]
  /\ ~ran.ok => ran.w.disk = P[0] /\ (ran.torn \/ Bare(ran.w, T, {}))

LEMMA RedoingTo ==
  ASSUME NEW n \in Nat, NEW P \in [0 .. n -> Files], NEW steps, Len(steps) = n, NEW T, Shape(steps, P, T),
         NEW k \in 1 .. n, NEW run \in Runs, Redoing(n, P, steps, T, k - 1, run),
         NEW new, new = Tried(run, k, TRUE)
  PROVE  new \in Runs /\ Redoing(n, P, steps, T, k, new)
<1>1. k - 1 \in Nat /\ k \in Nat /\ run.done \in Nat /\ run.done <= k - 1
  BY RunIs DEF Redoing
<1>2. CASE run.ok
  <2>1. /\ run.done = k - 1 /\ HeldRun(n, P, TRUE, steps, T, run) /\ run.w.disk = P[k - 1]
        /\ Bare(run.w, T, DocsAt(steps, k - 1)) /\ Away(run.w, P, k - 1, n)
    BY <1>2 DEF Redoing
  <2>2. HeldTo(n, P, TRUE, steps, T, k, k, run, new)
    <3>1. run.w.disk = P[Pos(n, TRUE, k - 1)]
      BY <2>1 DEF Pos
    <3> QED BY <1>2, <2>1, <3>1, TriedHeld
  <2>3. /\ HeldRun(n, P, TRUE, steps, T, new) /\ WalkedTo(n, P, TRUE, k, run, new)
        /\ IF new.ok THEN Effect(steps[k], TRUE, T, run.w, new.w) ELSE Opens(run.w, new.w)
    BY <2>2 DEF HeldTo
  <2>4. /\ new.ok => new.done = k
        /\ ~new.ok => new.done = k - 1
    <3>1. WalkedTo(n, P, TRUE, k, run, new) /\ run.done = k - 1
      BY <2>1, <2>3
    <3>2. /\ new.ok => new.done = run.done + 1
          /\ ~new.ok => new.done = run.done
      BY <3>1 DEF WalkedTo
    <3>3. run.done + 1 = k
      BY <1>1, <3>1
    <3> QED BY <3>1, <3>2, <3>3
  <2>5. /\ new.ok => new.w.disk = P[k]
        /\ ~new.ok => new.w.disk = P[k - 1]
    <3>1. WalkedTo(n, P, TRUE, k, run, new)
      BY <2>3
    <3> QED BY <3>1 DEF WalkedTo, Pos
  <2>6. new \in Runs
    BY <2>3 DEF HeldRun, Walks
  <2>7. PICK x, y : x = run.w /\ y = new.w
    OBVIOUS
  <2>8. CASE new.ok
    <3>1. Effect(steps[k], TRUE, T, x, y) /\ Bare(x, T, DocsAt(steps, k - 1)) /\ Away(x, P, k - 1, n)
      BY <2>1, <2>3, <2>7, <2>8
    <3>2. Bare(y, T, DocsAt(steps, k)) /\ Shows(steps[k], y) /\ Away(y, P, k, n)
      BY <3>1, RedoStep
    <3>3. new.done = k /\ new.w.disk = P[k]
      BY ONLY <2>4, <2>5, <2>8
    <3>4. k <= k
      BY <1>1
    <3> QED BY <2>3, <2>6, <2>7, <3>2, <3>3, <3>4 DEF Redoing
  <2>9. CASE ~new.ok
    <3>1. Bare(y, T, DocsAt(steps, k - 1))
      <4>1. PICK X : X = DocsAt(steps, k - 1)
        OBVIOUS
      <4>2. Opens(x, y) /\ Bare(x, T, X)
        BY <2>1, <2>3, <2>7, <2>9, <4>1
      <4> QED BY <4>1, <4>2, OpensBare
    <3>2. new.done = k - 1 /\ new.w.disk = P[k - 1]
      BY ONLY <2>4, <2>5, <2>9
    <3>3. k - 1 <= k
      BY <1>1
    <3> QED BY <2>3, <2>6, <2>7, <2>9, <3>1, <3>2, <3>3 DEF Redoing
  <2> QED BY <2>8, <2>9
<1>3. CASE ~run.ok
  <2>1. new = run
    BY <1>3 DEF Tried
  <2>2. run.done <= k
    BY <1>1
  <2> QED BY <1>3, <2>1, <2>2 DEF Redoing
<1> QED BY <1>2, <1>3

LEMMA RedoBackTo ==
  ASSUME NEW n \in Nat, NEW P \in [0 .. n -> Files], NEW steps, Len(steps) = n, NEW T,
         NEW m \in 1 .. n, NEW run \in Runs, RedoBack(n, P, steps, T, m, run),
         NEW new, new = GoneBack(run, m, TRUE)
  PROVE  new \in Runs /\ RedoBack(n, P, steps, T, m - 1, new)
<1>1. /\ HeldRun(n, P, TRUE, steps, T, run) /\ ~run.ok /\ run.w.disk = P[m]
      /\ run.torn \/ Bare(run.w, T, DocsAt(steps, m))
  BY DEF RedoBack
<1>2. HeldBack(n, P, TRUE, FALSE, steps, T, m, m, run, new)
  <2>1. run.w.disk = P[Pos(n, TRUE, m)]
    BY <1>1 DEF Pos
  <2> QED BY <1>1, <2>1, GoneBackHeld
<1>3. /\ HeldRun(n, P, TRUE, steps, T, new) /\ new.ok = run.ok
      /\ new.w.disk = P[m - 1]
      /\ run.torn => new.torn
      /\ new.torn \/ Effect(steps[m], FALSE, T, run.w, new.w)
  BY <1>2 DEF HeldBack, Pos
<1>4. new.torn \/ Bare(new.w, T, DocsAt(steps, m - 1))
  <2> SUFFICES ASSUME ~new.torn PROVE Bare(new.w, T, DocsAt(steps, m - 1))
    OBVIOUS
  <2>1. PICK x, y : x = run.w /\ y = new.w
    OBVIOUS
  <2>2. Bare(x, T, DocsAt(steps, m)) /\ Effect(steps[m], FALSE, T, x, y)
    BY <1>1, <1>3, <2>1
  <2>3. Bare(y, T, {})
    BY <2>2, BackStep
  <2>4. PICK X, Y : X = {} /\ Y = DocsAt(steps, m - 1)
    OBVIOUS
  <2>5. Bare(y, T, X) /\ X \subseteq Y
    BY <2>3, <2>4
  <2>6. Bare(y, T, Y)
    BY <2>5, BareMore
  <2> QED BY <2>1, <2>4, <2>6
<1> QED BY <1>1, <1>3, <1>4 DEF RedoBack, HeldRun, Walks

LEMMA RanRedone ==
  ASSUME NEW w \in Worlds, NEW steps \in Seq(Steps), NEW P, Path(steps, P), Clean(w), Fit(w), NEW T,
         Shape(steps, P, T), w.disk = P[0], w.signal = {}, Bare(w, T, {}), NEW n, n = Len(steps),
         NEW ran, ran = Ran(w, steps, TRUE)
  PROVE  Redone(n, P, steps, T, ran)
<1>1. n \in Nat /\ P \in [0 .. n -> Files]
  BY DEF Path
<1> DEFINE J == [k \in Nat |-> {run \in Runs : Redoing(n, P, steps, T, k, run)}]
           B == [k \in Nat |-> {run \in Runs : RedoBack(n, P, steps, T, k, run)}]
<1>2. /\ \A k \in Nat : \A run : run \in J[k] <=> run \in Runs /\ Redoing(n, P, steps, T, k, run)
      /\ \A k \in Nat : \A run : run \in B[k] <=> run \in Runs /\ RedoBack(n, P, steps, T, k, run)
  OBVIOUS
<1> HIDE DEF J, B
<1>3. Begun(w, steps) \in J[0]
  <2>1. PICK run : run = Begun(w, steps)
    OBVIOUS
  <2>2. HeldRun(n, P, TRUE, steps, T, run) /\ run \in Runs /\ run.w = w /\ run.done = 0
    <3>1. PICK redo : redo = TRUE
      OBVIOUS
    <3>2. HeldRun(n, P, redo, steps, T, run) /\ run \in Runs /\ run.w = w /\ run.done = 0
      BY <2>1, BegunHeld
    <3> QED BY <3>1, <3>2
  <2>3. DocsAt(steps, 0) = {} /\ Away(w, P, 0, n)
    BY DEF DocsAt, Away
  <2>4. PICK z : z = 0
    OBVIOUS
  <2>5. /\ HeldRun(n, P, TRUE, steps, T, run) /\ run.w.disk = P[run.done] /\ run.done = z
        /\ Bare(run.w, T, DocsAt(steps, run.done)) /\ Away(run.w, P, z, n)
    BY <2>2, <2>3, <2>4
  <2>6. z <= z /\ ~(z > 0)
    BY <2>4
  <2>7. Redoing(n, P, steps, T, z, run)
    BY <2>5, <2>6 DEF Redoing
  <2> QED BY <1>2, <2>1, <2>2, <2>4, <2>7
<1>4. ASSUME NEW k \in 1 .. n, NEW run \in J[k - 1]
      PROVE  Tried(run, Turn(steps, TRUE, k), TRUE) \in J[k]
  <2>1. PICK new : new = Tried(run, k, TRUE)
    OBVIOUS
  <2>2. k - 1 \in Nat /\ k \in Nat /\ Turn(steps, TRUE, k) = k
    BY <1>1 DEF Turn
  <2>3. run \in Runs /\ Redoing(n, P, steps, T, k - 1, run)
    BY <1>2, <2>2
  <2>4. new \in Runs /\ Redoing(n, P, steps, T, k, new)
    BY <1>1, <2>1, <2>3, RedoingTo
  <2> QED BY <1>2, <2>1, <2>2, <2>4
<1>5. ASSUME NEW run \in J[n]
      PROVE  run.done \in 0 .. n /\ (~run.ok => run \in B[run.done])
  <2>1. run \in Runs /\ Redoing(n, P, steps, T, n, run) /\ run.done \in Nat
    BY <1>1, <1>2, RunIs
  <2>2. run.done \in 0 .. n
    BY <1>1, <2>1 DEF Redoing
  <2>3. ~run.ok => RedoBack(n, P, steps, T, run.done, run)
    BY <2>1 DEF Redoing, RedoBack
  <2> QED BY <1>2, <2>1, <2>2, <2>3
<1>6. ASSUME NEW m \in 1 .. n, NEW run \in B[m]
      PROVE  GoneBack(run, Turn(steps, TRUE, m), TRUE) \in B[m - 1]
  <2>1. PICK new : new = GoneBack(run, m, TRUE)
    OBVIOUS
  <2>2. m - 1 \in Nat /\ m \in Nat /\ Turn(steps, TRUE, m) = m
    BY <1>1 DEF Turn
  <2>3. run \in Runs /\ RedoBack(n, P, steps, T, m, run)
    BY <1>2, <2>2
  <2>4. new \in Runs /\ RedoBack(n, P, steps, T, m - 1, new)
    BY <1>1, <2>1, <2>3, RedoBackTo
  <2> QED BY <1>2, <2>1, <2>2, <2>4
<1>7. ran \in B[0] \/ (ran \in J[n] /\ ran.ok)
  <2>1. \/ Ran(w, steps, TRUE) \in B[0]
        \/ Ran(w, steps, TRUE) \in J[n] /\ Ran(w, steps, TRUE).ok
    BY <1>1, <1>3, <1>4, <1>5, <1>6, RanIs
  <2> QED BY <2>1
<1>8. CASE ran \in B[0]
  <2>1. RedoBack(n, P, steps, T, 0, ran) /\ DocsAt(steps, 0) = {}
    BY <1>2, <1>8 DEF DocsAt
  <2> QED BY <2>1 DEF RedoBack, Redone
<1>9. CASE ran \in J[n] /\ ran.ok
  <2>1. Redoing(n, P, steps, T, n, ran)
    BY <1>1, <1>2, <1>9
  <2> QED BY <1>9, <2>1 DEF Redoing, Redone
<1> QED BY <1>7, <1>8, <1>9

(* The turn is undone. *)
Undoing(n, P, steps, T, w, k, run) ==
  /\ HeldRun(n, P, FALSE, steps, T, run) /\ run.w.disk = P[n - run.done] /\ run.done <= k
  /\ run.done = 0 => Opens(w, run.w)
  /\ run.ok => run.done = k /\ (k > 0 => Bare(run.w, T, {}))
UndoBack(n, P, steps, T, w, k, run) ==
  /\ HeldRun(n, P, FALSE, steps, T, run) /\ ~run.ok /\ run.w.disk = P[n - k] /\ k <= run.done
  /\ run.done = 0 => Opens(w, run.w)
Undone(n, P, steps, T, w, ran) ==
  /\ HeldRun(n, P, FALSE, steps, T, ran)
  /\ ran.ok => ran.w.disk = P[0] /\ Bare(ran.w, T, {})
  /\ ~ran.ok => ran.w.disk = P[n] /\ (ran.done = 0 => Opens(w, ran.w))

LEMMA OpensMore == ASSUME NEW w, NEW x, Opens(w, x), NEW y, Opens(x, y) PROVE Opens(w, y)
<1> QED BY DEF Opens, Has

LEMMA UndoingTo ==
  ASSUME NEW n \in Nat, NEW P \in [0 .. n -> Files], NEW steps, Len(steps) = n, NEW T,
         NEW w, Bare(w, T, DocsAt(steps, n)),
         NEW k \in 1 .. n, NEW run \in Runs, Undoing(n, P, steps, T, w, k - 1, run),
         NEW i, i = n + 1 - k, NEW new, new = Tried(run, i, FALSE)
  PROVE  new \in Runs /\ Undoing(n, P, steps, T, w, k, new)
<1>1. k - 1 \in Nat /\ k \in Nat /\ run.done \in Nat /\ run.done <= k - 1 /\ i \in 1 .. n
  BY RunIs DEF Undoing
<1>2. CASE run.ok
  <2>1. /\ run.done = k - 1 /\ HeldRun(n, P, FALSE, steps, T, run) /\ run.w.disk = P[n - (k - 1)]
        /\ (k - 1 > 0 => Bare(run.w, T, {})) /\ (k - 1 = 0 => Opens(w, run.w))
    BY <1>2 DEF Undoing
  <2>2. HeldTo(n, P, FALSE, steps, T, k, i, run, new)
    <3>1. run.w.disk = P[Pos(n, FALSE, k - 1)]
      BY <2>1 DEF Pos
    <3> QED BY <1>2, <2>1, <3>1, TriedHeld
  <2>3. /\ HeldRun(n, P, FALSE, steps, T, new) /\ WalkedTo(n, P, FALSE, k, run, new)
        /\ IF new.ok THEN Effect(steps[i], FALSE, T, run.w, new.w) ELSE Opens(run.w, new.w)
    BY <2>2 DEF HeldTo
  <2>4. /\ new.ok => new.done = k
        /\ ~new.ok => new.done = k - 1
    <3>1. WalkedTo(n, P, FALSE, k, run, new) /\ run.done = k - 1
      BY <2>1, <2>3
    <3>2. /\ new.ok => new.done = run.done + 1
          /\ ~new.ok => new.done = run.done
      BY <3>1 DEF WalkedTo
    <3>3. run.done + 1 = k
      BY <1>1, <3>1
    <3> QED BY <3>1, <3>2, <3>3
  <2>5. /\ new.ok => new.w.disk = P[n - k]
        /\ ~new.ok => new.w.disk = P[n - (k - 1)]
    <3>1. WalkedTo(n, P, FALSE, k, run, new)
      BY <2>3
    <3> QED BY <3>1 DEF WalkedTo, Pos
  <2>6. new \in Runs
    BY <2>3 DEF HeldRun, Walks
  <2>7. PICK x, y : x = run.w /\ y = new.w
    OBVIOUS
  <2>8. CASE new.ok
    <3>1. Bare(x, T, DocsAt(steps, i))
      <4>1. PICK X : X = DocsAt(steps, i)
        OBVIOUS
      <4>2. CASE k = 1
        <5>1. Opens(w, x) /\ Bare(w, T, X)
          BY <1>1, <2>1, <2>7, <4>1, <4>2
        <5> QED BY <4>1, <5>1, OpensBare
      <4>3. CASE k # 1
        <5>1. Bare(x, T, {})
          BY <1>1, <2>1, <2>7, <4>3
        <5> QED BY <5>1, BareMore
      <4> QED BY <4>2, <4>3
    <3>2. Effect(steps[i], FALSE, T, x, y)
      BY <2>3, <2>7, <2>8
    <3>3. Bare(y, T, {})
      BY <1>1, <3>1, <3>2, BackStep
    <3>4. new.done = k /\ new.w.disk = P[n - k]
      BY ONLY <2>4, <2>5, <2>8
    <3>5. k <= k /\ k # 0
      BY <1>1
    <3> QED BY <2>3, <2>6, <2>7, <3>3, <3>4, <3>5 DEF Undoing
  <2>9. CASE ~new.ok
    <3>1. new.done = k - 1 /\ new.w.disk = P[n - (k - 1)]
      BY ONLY <2>4, <2>5, <2>9
    <3>3. k - 1 <= k
      BY <1>1
    <3>2. k - 1 = 0 => Opens(w, y)
      <4>1. Opens(x, y) /\ (k - 1 = 0 => Opens(w, x))
        BY <2>1, <2>3, <2>7, <2>9
      <4> QED BY <4>1, OpensMore
    <3> QED BY <2>3, <2>6, <2>7, <2>9, <3>1, <3>2, <3>3 DEF Undoing
  <2> QED BY <2>8, <2>9
<1>3. CASE ~run.ok
  <2>1. new = run
    BY <1>3 DEF Tried
  <2>2. run.done <= k
    BY <1>1
  <2> QED BY <1>3, <2>1, <2>2 DEF Undoing
<1> QED BY <1>2, <1>3

LEMMA UndoBackTo ==
  ASSUME NEW n \in Nat, NEW P \in [0 .. n -> Files], NEW steps, Len(steps) = n, NEW T, NEW w,
         NEW m \in 1 .. n, NEW run \in Runs, UndoBack(n, P, steps, T, w, m, run),
         NEW i, i = n + 1 - m, NEW new, new = GoneBack(run, i, FALSE)
  PROVE  new \in Runs /\ UndoBack(n, P, steps, T, w, m - 1, new)
<1>1. /\ HeldRun(n, P, FALSE, steps, T, run) /\ ~run.ok /\ run.w.disk = P[n - m]
      /\ m <= run.done /\ run.done \in Nat
  BY RunIs DEF UndoBack
<1>2. HeldBack(n, P, FALSE, TRUE, steps, T, m, i, run, new)
  <2>1. run.w.disk = P[Pos(n, FALSE, m)]
    BY <1>1 DEF Pos
  <2> QED BY <1>1, <2>1, GoneBackHeld
<1>3. /\ HeldRun(n, P, FALSE, steps, T, new) /\ new.ok = run.ok /\ new.done = run.done
      /\ new.w.disk = P[n - (m - 1)]
  BY <1>2 DEF HeldBack, Pos
<1>4. m - 1 <= new.done /\ new.done # 0
  <2>1. new.done = run.done
    BY <1>3
  <2>2. m \in Nat /\ m # 0 /\ m <= run.done /\ run.done \in Nat
    BY <1>1
  <2> QED BY ONLY <2>1, <2>2
<1>5. ~new.ok
  BY ONLY <1>1, <1>3
<1>6. PICK z : z = m - 1
  OBVIOUS
<1>7. UndoBack(n, P, steps, T, w, z, new)
  BY <1>3, <1>4, <1>5, <1>6 DEF UndoBack
<1>8. new \in Runs
  BY <1>3 DEF HeldRun, Walks
<1> QED BY <1>6, <1>7, <1>8

LEMMA RanUndone ==
  ASSUME NEW w \in Worlds, NEW steps \in Seq(Steps), NEW P, Path(steps, P), Clean(w), Fit(w), NEW T,
         Shape(steps, P, T), NEW n, n = Len(steps), w.disk = P[n], Bare(w, T, DocsAt(steps, n)),
         NEW ran, ran = Ran(w, steps, FALSE)
  PROVE  Undone(n, P, steps, T, w, ran)
<1>1. n \in Nat /\ P \in [0 .. n -> Files]
  BY DEF Path
<1> DEFINE J == [k \in Nat |-> {run \in Runs : Undoing(n, P, steps, T, w, k, run)}]
           B == [k \in Nat |-> {run \in Runs : UndoBack(n, P, steps, T, w, k, run)}]
<1>2. /\ \A k \in Nat : \A run : run \in J[k] <=> run \in Runs /\ Undoing(n, P, steps, T, w, k, run)
      /\ \A k \in Nat : \A run : run \in B[k] <=> run \in Runs /\ UndoBack(n, P, steps, T, w, k, run)
  OBVIOUS
<1> HIDE DEF J, B
<1>3. Begun(w, steps) \in J[0]
  <2>1. PICK run : run = Begun(w, steps)
    OBVIOUS
  <2>2. HeldRun(n, P, FALSE, steps, T, run) /\ run \in Runs /\ run.w = w /\ run.done = 0
    <3>1. PICK redo : redo = FALSE
      OBVIOUS
    <3>2. HeldRun(n, P, redo, steps, T, run) /\ run \in Runs /\ run.w = w /\ run.done = 0
      BY <2>1, BegunHeld
    <3> QED BY <3>1, <3>2
  <2>3. n - 0 = n /\ Opens(w, w)
    BY <1>1, SameOpens
  <2>4. PICK z : z = 0
    OBVIOUS
  <2>5. /\ run.w.disk = P[n - run.done] /\ run.done = z /\ Opens(w, run.w)
    BY <2>2, <2>3, <2>4
  <2>6. z <= z /\ ~(z > 0)
    BY <2>4
  <2>7. Undoing(n, P, steps, T, w, z, run)
    BY <2>2, <2>5, <2>6 DEF Undoing
  <2> QED BY <1>2, <2>1, <2>2, <2>4, <2>7
<1>4. ASSUME NEW k \in 1 .. n, NEW run \in J[k - 1]
      PROVE  Tried(run, Turn(steps, FALSE, k), FALSE) \in J[k]
  <2>1. PICK i, new : i = n + 1 - k /\ new = Tried(run, i, FALSE)
    OBVIOUS
  <2>2. k - 1 \in Nat /\ k \in Nat /\ Turn(steps, FALSE, k) = i
    BY <1>1, <2>1 DEF Turn
  <2>3. run \in Runs /\ Undoing(n, P, steps, T, w, k - 1, run)
    BY <1>2, <2>2
  <2>4. new \in Runs /\ Undoing(n, P, steps, T, w, k, new)
    BY <1>1, <2>1, <2>3, UndoingTo
  <2> QED BY <1>2, <2>1, <2>2, <2>4
<1>5. ASSUME NEW run \in J[n]
      PROVE  run.done \in 0 .. n /\ (~run.ok => run \in B[run.done])
  <2>1. run \in Runs /\ Undoing(n, P, steps, T, w, n, run) /\ run.done \in Nat
    BY <1>1, <1>2, RunIs
  <2>2. run.done \in 0 .. n
    BY <1>1, <2>1 DEF Undoing
  <2>3. ~run.ok => UndoBack(n, P, steps, T, w, run.done, run)
    <3>1. PICK z : z = run.done
      OBVIOUS
    <3>2. z <= run.done
      BY <2>1, <3>1
    <3>3. ~run.ok => UndoBack(n, P, steps, T, w, z, run)
      BY <2>1, <3>1, <3>2 DEF Undoing, UndoBack
    <3> QED BY <3>1, <3>3
  <2> QED BY <1>2, <2>1, <2>2, <2>3
<1>6. ASSUME NEW m \in 1 .. n, NEW run \in B[m]
      PROVE  GoneBack(run, Turn(steps, FALSE, m), FALSE) \in B[m - 1]
  <2>1. PICK i, new : i = n + 1 - m /\ new = GoneBack(run, i, FALSE)
    OBVIOUS
  <2>2. m - 1 \in Nat /\ m \in Nat /\ Turn(steps, FALSE, m) = i
    BY <1>1, <2>1 DEF Turn
  <2>3. run \in Runs /\ UndoBack(n, P, steps, T, w, m, run)
    BY <1>2, <2>2
  <2>4. new \in Runs /\ UndoBack(n, P, steps, T, w, m - 1, new)
    BY <1>1, <2>1, <2>3, UndoBackTo
  <2> QED BY <1>2, <2>1, <2>2, <2>4
<1>7. ran \in B[0] \/ (ran \in J[n] /\ ran.ok)
  <2>1. \/ Ran(w, steps, FALSE) \in B[0]
        \/ Ran(w, steps, FALSE) \in J[n] /\ Ran(w, steps, FALSE).ok
    BY <1>1, <1>3, <1>4, <1>5, <1>6, RanIs
  <2> QED BY <2>1
<1>8. CASE ran \in B[0]
  <2>1. UndoBack(n, P, steps, T, w, 0, ran) /\ n - 0 = n
    BY <1>1, <1>2, <1>8
  <2> QED BY <2>1 DEF UndoBack, Undone
<1>9. CASE ran \in J[n] /\ ran.ok
  <2>1. Undoing(n, P, steps, T, w, n, ran)
    BY <1>1, <1>2, <1>9
  <2>2. /\ HeldRun(n, P, FALSE, steps, T, ran) /\ ran.done = n /\ ran.w.disk = P[n - n] /\ n - n = 0
        /\ (n > 0 => Bare(ran.w, T, {})) /\ (n = 0 => Opens(w, ran.w))
    BY <1>1, <1>9, <2>1 DEF Undoing
  <2>3. Bare(ran.w, T, {})
    <3>1. CASE n = 0
      <4>1. PICK x, X : x = ran.w /\ X = {}
        OBVIOUS
      <4>2. Opens(w, x) /\ Bare(w, T, X)
        BY <2>2, <3>1, <4>1 DEF DocsAt
      <4> QED BY <4>1, <4>2, OpensBare
    <3>2. CASE n > 0
      BY <2>2, <3>2
    <3> QED BY <1>1, <3>1, <3>2
  <2> QED BY <1>9, <2>2, <2>3 DEF Undone
<1> QED BY <1>7, <1>8, <1>9

(***************************************************************************)
(* The invariant.  The files are at one end of a path along the steps, the *)
(* begin of the turn at the other, next to the last edits; during the turn *)
(* every edit that is shown is recorded, after it the pages show what the  *)
(* last step put there, and once it is undone they show none.              *)
(***************************************************************************)

Begins(P, T, b) == \A u \in Urls \ T : b[u] = P[0][u]
Ends(steps, P, T, c) ==
  \A u \in Urls \ T : c[u] = IF u \in DocsAt(steps, Len(steps))
                             THEN {steps[Len(steps)].docs[u].after} ELSE P[Len(steps)][u]
TrailOn(P, d, steps, applied, st, T, b, c) ==
  /\ Path(steps, P) /\ Shape(steps, P, T) /\ d = P[IF applied THEN Len(steps) ELSE 0]
  /\ st # "before" => Begins(P, T, b)
  /\ st \notin {"before", "open"} => Ends(steps, P, T, c)
Trail(d, steps, applied, st, T, b, c) == \E P : TrailOn(P, d, steps, applied, st, T, b, c)

Fresh(w, docs, T) ==
  \A u \in Urls \ T : Shown(w, u) /\ Has(w, u) # {} =>
    u \in DOMAIN docs /\ docs[u].before = {} /\ Has(w, u) = docs[u].after
Final(w, steps, T) ==
  /\ Bare(w, T, DocsAt(steps, Len(steps)))
  /\ \A u \in DocsAt(steps, Len(steps)) \ T : Shown(w, u) /\ Has(w, u) = steps[Len(steps)].docs[u].after
Pages(w, steps, applied, docs, st, T) ==
  /\ Fit(w) /\ Sound(docs)
  /\ st = "before" => steps = << >>
  /\ st \in {"before", "open"} => DocsAt(steps, Len(steps)) = {} /\ Fresh(w, docs, T)
  /\ st \in {"committed", "over"} /\ applied => Final(w, steps, T)
  /\ st \notin {"before", "open"} /\ ~applied => Bare(w, T, {})

HeldHere == /\ Trail(disk, group.steps, group.applied, stage, touched, atBegin, atCommit)
            /\ Pages(World, group.steps, group.applied, transaction, stage, touched)

(* Others change a document more. *)
LEMMA TrailLater ==
  ASSUME NEW d, NEW steps, NEW applied, NEW st, NEW T, NEW b, NEW c, Trail(d, steps, applied, st, T, b, c),
         NEW T2, T \subseteq T2
  PROVE  Trail(d, steps, applied, st, T2, b, c)
<1>1. PICK P : TrailOn(P, d, steps, applied, st, T, b, c)
  BY DEF Trail
<1>2. Shape(steps, P, T2)
  <2>1. Shape(steps, P, T)
    BY <1>1 DEF TrailOn
  <2>2. \A i \in 1 .. Len(steps) : PlainStep(steps[i], T2)
    BY <2>1 DEF Shape, PlainStep
  <2> QED BY <2>1, <2>2 DEF Shape
<1>3. Begins(P, T, b) => Begins(P, T2, b)
  BY DEF Begins
<1>4. Ends(steps, P, T, c) => Ends(steps, P, T2, c)
  BY DEF Ends
<1>5. TrailOn(P, d, steps, applied, st, T2, b, c)
  BY <1>1, <1>2, <1>3, <1>4 DEF TrailOn
<1> QED BY <1>5 DEF Trail

LEMMA LastChanged ==
  ASSUME NEW steps \in Seq(Steps), NEW P, NEW T, Shape(steps, P, T), NEW u \in DocsAt(steps, Len(steps)) \ T
  PROVE  steps[Len(steps)].docs[u].after # {}
<1>1. PICK n, step : n = Len(steps) /\ step = steps[n]
  OBVIOUS
<1>2. n \in Nat /\ n # 0 /\ u \in EditDocs(step)
  BY <1>1 DEF DocsAt
<1>3. n \in 1 .. Len(steps)
  BY <1>1, <1>2
<1>4. PlainStep(step, T)
  BY <1>1, <1>3 DEF Shape
<1>5. step.docs[u].before # step.docs[u].after /\ step.docs[u].before = {}
  BY <1>2, <1>4 DEF PlainStep, EditDocs
<1> QED BY <1>1, <1>5

(* What is recorded stays recorded while it is shown. *)
Follows(docs, docs2, w, w2) ==
  \A u \in DOMAIN docs : Shown(w, u) /\ Shown(w2, u) => u \in DOMAIN docs2 /\ docs2[u] = docs[u]

LEMMA OpensHides == ASSUME NEW w, NEW o, Opens(w, o) PROVE Hides(w, o)
<1> QED BY DEF Opens, Hides, Shown

LEMMA HidesFresh ==
  ASSUME NEW w, NEW w2, Hides(w, w2), NEW docs, NEW docs2, Follows(docs, docs2, w, w2), NEW T, Fresh(w, docs, T)
  PROVE  Fresh(w2, docs2, T)
<1> SUFFICES ASSUME NEW u \in Urls \ T, Shown(w2, u), Has(w2, u) # {}
             PROVE  u \in DOMAIN docs2 /\ docs2[u].before = {} /\ Has(w2, u) = docs2[u].after
  BY DEF Fresh
<1>1. Shown(w, u) /\ w2.page[u] = w.page[u]
  BY DEF Hides
<1>2. Has(w2, u) = Has(w, u)
  BY <1>1 DEF Has
<1>3. u \in DOMAIN docs /\ docs[u].before = {} /\ Has(w, u) = docs[u].after
  BY <1>1, <1>2 DEF Fresh
<1>4. u \in DOMAIN docs2 /\ docs2[u] = docs[u]
  BY <1>1, <1>3 DEF Follows
<1> QED BY <1>2, <1>3, <1>4

LEMMA OpensFinal ==
  ASSUME NEW w, NEW o, Opens(w, o), NEW steps, NEW T, Final(w, steps, T),
         DocsAt(steps, Len(steps)) \subseteq Urls
  PROVE  Final(o, steps, T)
<1>1. PICK X : X = DocsAt(steps, Len(steps))
  OBVIOUS
<1>2. Bare(o, T, X)
  BY <1>1, OpensBare DEF Final
<1>3. ASSUME NEW u \in X \ T
      PROVE Shown(o, u) /\ Has(o, u) = steps[Len(steps)].docs[u].after
  <2>1. Shown(w, u) /\ Has(w, u) = steps[Len(steps)].docs[u].after /\ u \in Urls
    BY <1>1 DEF Final
  <2>2. o.page[u] = w.page[u] /\ o.signal = w.signal
    BY <2>1 DEF Opens, Shown
  <2> QED BY <2>1, <2>2 DEF Shown, Has
<1> QED BY <1>1, <1>2, <1>3 DEF Final

(* Pages of others, or without edits, are closed. *)
Quiet(w, w2, T) ==
  \A u \in Urls \ T : /\ Shown(w2, u) => Shown(w, u) /\ w2.page[u] = w.page[u]
                      /\ Shown(w, u) /\ Has(w, u) # {} => Shown(w2, u)

LEMMA QuietFresh ==
  ASSUME NEW w, NEW w2, NEW T, NEW T2, T \subseteq T2, Quiet(w, w2, T2), NEW docs, Fresh(w, docs, T)
  PROVE  Fresh(w2, docs, T2)
<1> QED BY DEF Quiet, Fresh, Has

LEMMA QuietBare ==
  ASSUME NEW w, NEW w2, NEW T, NEW T2, T \subseteq T2, Quiet(w, w2, T2), NEW X, Bare(w, T, X)
  PROVE  Bare(w2, T2, X)
<1> QED BY DEF Quiet, Bare, Has

LEMMA QuietFinal ==
  ASSUME NEW w, NEW w2, NEW T, NEW T2, T \subseteq T2, Quiet(w, w2, T2), NEW steps, Final(w, steps, T),
         DocsAt(steps, Len(steps)) \subseteq Urls,
         \A u \in DocsAt(steps, Len(steps)) \ T : steps[Len(steps)].docs[u].after # {}
  PROVE  Final(w2, steps, T2)
<1>1. PICK X : X = DocsAt(steps, Len(steps))
  OBVIOUS
<1>2. Bare(w2, T2, X)
  BY <1>1, QuietBare DEF Final
<1>3. ASSUME NEW u \in X \ T2
      PROVE Shown(w2, u) /\ Has(w2, u) = steps[Len(steps)].docs[u].after
  <2>1. Shown(w, u) /\ Has(w, u) = steps[Len(steps)].docs[u].after /\ u \in Urls \ T2 /\ Has(w, u) # {}
    BY <1>1 DEF Final
  <2>2. Shown(w2, u) /\ w2.page[u] = w.page[u]
    BY <2>1 DEF Quiet
  <2> QED BY <2>1, <2>2 DEF Has
<1> QED BY <1>1, <1>2, <1>3 DEF Final

LEMMA DocsAtUrls ==
  ASSUME NEW steps \in Seq(Steps), NEW m \in 0 .. Len(steps)
  PROVE  DocsAt(steps, m) \subseteq Urls
<1>1. CASE m = 0
  BY <1>1 DEF DocsAt
<1>2. CASE m # 0
  <2>1. steps[m] \in Steps
    BY <1>2
  <2>2. PICK step : step = steps[m]
    OBVIOUS
  <2>3. step.kind = "edit" => step.docs \in Docs
    BY <2>1, <2>2, StepIs
  <2>4. EditDocs(step) \subseteq Urls
    BY <2>3, DocsAre DEF EditDocs
  <2> QED BY <1>2, <2>2, <2>4 DEF DocsAt
<1> QED BY <1>1, <1>2

LEMMA RecordedSound ==
  ASSUME NEW w \in Worlds, Fit(w), NEW u \in Urls, w.page[u] # {}
  PROVE  /\ Recorded(w, u).before \subseteq Recorded(w, u).after
         /\ Recorded(w, u).dirty <=> Recorded(w, u).before # {}
         /\ Recorded(w, u).before = Has(w, u) /\ Recorded(w, u).after = Has(w, u)
<1>1. PICK rec : rec = Recorded(w, u)
  OBVIOUS
<1>2. rec.before = Has(w, u) /\ rec.after = Has(w, u) /\ rec.dirty = The(w.page[u]).modified
  BY <1>1 DEF Recorded, Has
<1>3. The(w.page[u]).modified <=> Has(w, u) # {}
  BY DEF Fit, FitAt
<1> QED BY <1>1, <1>2, <1>3

LEMMA JoinedSound ==
  ASSUME NEW docs \in Docs, Sound(docs), NEW w \in Worlds, NEW w2 \in Worlds, Fit(w2),
         NEW j, j = Joined(docs, w, w2)
  PROVE  Sound(j) /\ Follows(docs, j, w, w2)
<1>1. j \in Docs /\ JoinedFrom(docs, w, w2, j) /\ DOMAIN docs \subseteq DOMAIN j
  <2>1. j \in Docs
    BY JoinedIs
  <2>2. JoinedFrom(docs, w, w2, j)
    BY JoinedIs
  <2>3. DOMAIN docs \subseteq DOMAIN j
    BY DEF Joined
  <2> QED BY <2>1, <2>2, <2>3
<1>2. ASSUME NEW u \in DOMAIN j
      PROVE  j[u].before \subseteq j[u].after /\ (j[u].dirty <=> j[u].before # {})
  <2>1. u \in Urls
    BY <1>1, DocsAre
  <2>2. CASE u \in DOMAIN docs /\ j[u] = docs[u]
    BY <2>2 DEF Sound
  <2>3. CASE w.page[u] = {} /\ w2.page[u] # {} /\ j[u] = Recorded(w2, u)
    BY <2>1, <2>3, RecordedSound
  <2> QED BY <1>1, <2>2, <2>3 DEF JoinedFrom
<1>3. ASSUME NEW u \in DOMAIN docs, Shown(w, u) PROVE u \in DOMAIN j /\ j[u] = docs[u]
  <2>1. u \in DOMAIN j /\ w.page[u] # {}
    BY <1>1, <1>3 DEF Shown
  <2> QED BY <1>1, <2>1 DEF JoinedFrom
<1> QED BY <1>2, <1>3 DEF Sound, Follows

LEMMA LastUrls ==
  ASSUME NEW steps \in Seq(Steps)
  PROVE  DocsAt(steps, Len(steps)) \subseteq Urls
<1>1. PICK m : m = Len(steps)
  OBVIOUS
<1>2. m \in 0 .. Len(steps)
  BY <1>1
<1>3. DocsAt(steps, m) \subseteq Urls
  BY <1>2, DocsAtUrls
<1> QED BY <1>1, <1>3

LEMMA OpensPages ==
  ASSUME NEW w, NEW o, Opens(w, o), Fit(o), NEW docs, NEW docs2, Sound(docs2), Follows(docs, docs2, w, o),
         NEW steps \in Seq(Steps), NEW applied, NEW st, NEW T, Pages(w, steps, applied, docs, st, T)
  PROVE  Pages(o, steps, applied, docs2, st, T)
<1>1. Fresh(w, docs, T) => Fresh(o, docs2, T)
  BY OpensHides, HidesFresh
<1>2. Final(w, steps, T) => Final(o, steps, T)
  BY OpensFinal, LastUrls
<1>3. PICK X : X = {}
  OBVIOUS
<1>4. Bare(w, T, X) => Bare(o, T, X)
  BY OpensBare
<1> QED BY <1>1, <1>2, <1>3, <1>4 DEF Pages

LEMMA QuietPages ==
  ASSUME NEW w, NEW w2, NEW T, NEW T2, T \subseteq T2, Quiet(w, w2, T2), Fit(w2), NEW docs,
         NEW steps \in Seq(Steps), NEW P, Shape(steps, P, T), NEW applied, NEW st,
         Pages(w, steps, applied, docs, st, T)
  PROVE  Pages(w2, steps, applied, docs, st, T2)
<1>1. Fresh(w, docs, T) => Fresh(w2, docs, T2)
  BY QuietFresh
<1>2. Final(w, steps, T) => Final(w2, steps, T2)
  <2>1. \A u \in DocsAt(steps, Len(steps)) \ T : steps[Len(steps)].docs[u].after # {}
    BY LastChanged
  <2>2. DocsAt(steps, Len(steps)) \subseteq Urls
    BY LastUrls
  <2> QED BY <2>1, <2>2, QuietFinal
<1>3. PICK X : X = {}
  OBVIOUS
<1>4. Bare(w, T, X) => Bare(w2, T2, X)
  BY QuietBare
<1> QED BY <1>1, <1>2, <1>3, <1>4 DEF Pages

LEMMA LoadedHeld ==
  ASSUME TypeOK, HeldHere, NEW us, Loaded(us), \A u \in us \cap Urls : disk[u] # {},
         UNCHANGED <<stage, group, ghosts>>
  PROVE  HeldHere'
<1>1. World \in Worlds /\ transaction \in Docs /\ World.disk = disk /\ group \in Groups
  BY TypesAre, WorldsTypes
<1>2. PICK w, open, steps, applied, T :
        /\ w = World /\ open = Opened(w, us) /\ steps = group.steps /\ applied = group.applied /\ T = touched
  OBVIOUS
<1>3. open \in Worlds /\ open.disk = w.disk /\ w \in Worlds
  <2>1. open \in Worlds /\ Same(open.disk, w.disk)
    BY <1>1, <1>2, OpenedIs
  <2> QED BY <1>1, <1>2, <2>1 DEF Same
<1>4. Fit(w) /\ Sound(transaction) /\ Pages(w, steps, applied, transaction, stage, T)
  BY <1>2 DEF HeldHere, Pages
<1>5. \A u \in us \cap Urls : w.disk[u] # {}
  BY <1>1, <1>2
<1>6. Fit(open) /\ Opens(w, open)
  BY <1>2, <1>3, <1>4, <1>5, OpenedFit
<1>7. World' = open /\ transaction' = IF stage = "open" THEN Joined(transaction, w, open) ELSE transaction
  <2>1. Same(World', open)
    BY <1>2, <1>3, BecomesIs DEF Loaded
  <2> QED BY <1>2, <2>1 DEF Loaded, Same
<1>8. Sound(transaction') /\ Follows(transaction, transaction', w, open)
  <2>1. CASE stage = "open"
    <3>1. PICK docs, j : docs = transaction /\ j = Joined(docs, w, open)
      OBVIOUS
    <3>2. Sound(j) /\ Follows(docs, j, w, open)
      BY <1>1, <1>3, <1>4, <1>6, <3>1, JoinedSound
    <3> QED BY <1>7, <2>1, <3>1, <3>2
  <2>2. CASE stage # "open"
    <3>1. transaction' = transaction
      BY <1>7, <2>2
    <3> QED BY <1>4, <3>1 DEF Follows
  <2> QED BY <2>1, <2>2
<1>9. steps \in Seq(Steps)
  BY <1>1, <1>2, GroupIs
<1>10. Pages(open, steps, applied, transaction', stage, T)
  <2>1. PICK docs, docs2, st : docs = transaction /\ docs2 = transaction' /\ st = stage
    OBVIOUS
  <2>2. Pages(open, steps, applied, docs2, st, T)
    BY <1>4, <1>6, <1>8, <1>9, <2>1, OpensPages
  <2> QED BY <2>1, <2>2
<1>11. UNCHANGED <<disk, stage, group, touched, atBegin, atCommit>>
  <2>1. disk' = open.disk
    BY <1>2 DEF Loaded, Becomes
  <2> QED BY <1>1, <1>2, <1>3, <2>1 DEF ghosts
<1>12. Trail(disk, group.steps, group.applied, stage, touched, atBegin, atCommit)
  BY DEF HeldHere
<1> QED BY <1>2, <1>7, <1>10, <1>11, <1>12 DEF HeldHere

LEMMA PagesHeld ==
  ASSUME TypeOK, HeldHere, UNCHANGED <<disk, stage, group, transaction, atBegin, atCommit>>,
         touched \subseteq touched', Fit(World'), Quiet(World, World', touched')
  PROVE  HeldHere'
<1>1. group \in Groups
  BY TypesAre
<1>2. PICK w, w2, steps, applied, T, T2, docs, st :
        /\ w = World /\ w2 = World' /\ steps = group.steps /\ applied = group.applied
        /\ T = touched /\ T2 = touched' /\ docs = transaction /\ st = stage
  OBVIOUS
<1>3. steps \in Seq(Steps)
  BY <1>1, <1>2, GroupIs
<1>4. PICK P : Shape(steps, P, T)
  BY <1>2 DEF HeldHere, Trail, TrailOn
<1>5. Pages(w2, steps, applied, docs, st, T2)
  <2>1. /\ T \subseteq T2 /\ Quiet(w, w2, T2) /\ Fit(w2)
        /\ Pages(w, steps, applied, docs, st, T)
    BY <1>2 DEF HeldHere
  <2> QED BY <1>3, <1>4, <2>1, QuietPages
<1>6. PICK d, b, c : d = disk /\ b = atBegin /\ c = atCommit
  OBVIOUS
<1>7. Trail(d, steps, applied, st, T2, b, c)
  <2>1. Trail(d, steps, applied, st, T, b, c) /\ T \subseteq T2
    BY <1>2, <1>6 DEF HeldHere
  <2> QED BY <2>1, TrailLater
<1> QED BY <1>2, <1>5, <1>6, <1>7 DEF HeldHere

(* A page that is closed, or of a text with edits. *)
LEMMA PageFit ==
  ASSUME TypeOK, Fit(World), NEW u \in Urls, UNCHANGED disk, signal' \in {signal, signal \ {u}},
         \A v \in Urls : v # u => page'[v] = page[v],
         \/ page'[u] = {}
         \/ page[u] # {} /\ signal' = signal /\ The(page'[u]).modified /\ The(page'[u]).text # {}
  PROVE  Fit(World')
<1>1. World.disk = disk /\ World.page = page /\ World.signal = signal
  BY TypesAre, WorldsTypes
<1>2. World'.disk = disk /\ World'.page = page' /\ World'.signal = signal'
  BY DEF World
<1> SUFFICES ASSUME NEW v \in Urls PROVE FitAt(World', v)
  BY DEF Fit
<1>3. FitAt(World, v)
  BY DEF Fit
<1>4. CASE v # u
  BY <1>1, <1>2, <1>3, <1>4 DEF FitAt, Has
<1>5. CASE v = u
  BY <1>1, <1>2, <1>3, <1>5 DEF FitAt, Has
<1> QED BY <1>4, <1>5

LEMMA TouchMore ==
  ASSUME NEW u, Touch(u) \/ UNCHANGED touched
  PROVE  touched \subseteq touched' /\ (Touch(u) => u \in touched')
<1> QED BY DEF Touch

LEMMA TypeHolds == ASSUME TypeOK, HeldHere, NEW u \in Urls, Type(u) PROVE HeldHere'
<1>0. page \in [Urls -> Maybe(Editors)] /\ Fit(World)
  BY TypesAre, WorldsTypes DEF HeldHere, Pages
<1>1. PICK e : e = [text |-> Text(u) \cup {<<"user", used'.typed>>}, modified |-> TRUE]
  OBVIOUS
<1>2. /\ page[u] # {} /\ page' = [page EXCEPT ![u] = {e}] /\ Touch(u)
      /\ UNCHANGED <<disk, signal, stage, group, transaction, atBegin, atCommit>>
  BY <1>1 DEF Type
<1>3. The({e}).modified /\ The({e}).text # {}
  <2>1. The({e}) = e /\ e.modified = TRUE /\ e.text # {}
    BY <1>1, TheOne
  <2> QED BY ONLY <2>1
<1>4. page'[u] = {e} /\ \A v \in Urls : v # u => page'[v] = page[v]
  BY <1>0, <1>2
<1>5. Fit(World')
  <2>1. The(page'[u]).modified /\ The(page'[u]).text # {}
    BY <1>3, <1>4
  <2> QED BY <1>0, <1>2, <1>4, <2>1, PageFit
<1>6. touched \subseteq touched' /\ u \in touched'
  BY <1>2, TouchMore
<1>7. Quiet(World, World', touched')
  <2>1. World.page = page /\ World.signal = signal
    BY TypesAre, WorldsTypes
  <2>2. World'.page = page' /\ World'.signal = signal
    BY <1>2 DEF World
  <2>3. \A v \in Urls \ touched' : World'.page[v] = World.page[v]
    BY <1>4, <1>6, <2>1, <2>2
  <2> QED BY <2>1, <2>2, <2>3 DEF Quiet, Shown
<1> QED BY <1>2, <1>5, <1>6, <1>7, PagesHeld

LEMMA CloseHolds == ASSUME TypeOK, HeldHere, NEW u \in Urls, Close(u) PROVE HeldHere'
<1>0. page \in [Urls -> Maybe(Editors)] /\ Fit(World)
      /\ World.disk = disk /\ World.page = page /\ World.signal = signal
  BY TypesAre, WorldsTypes DEF HeldHere, Pages
<1>1. /\ page[u] # {} /\ page' = [page EXCEPT ![u] = {}]
      /\ IF The(page[u]).modified THEN Touch(u) ELSE UNCHANGED touched
      /\ UNCHANGED <<disk, signal, stage, group, transaction, atBegin, atCommit>>
  BY DEF Close
<1>2. page'[u] = {} /\ \A v \in Urls : v # u => page'[v] = page[v]
  BY <1>0, <1>1
<1>3. Fit(World')
  BY <1>0, <1>1, <1>2, PageFit
<1>4. touched \subseteq touched' /\ (The(page[u]).modified => u \in touched')
  BY <1>1, TouchMore
<1>5. Quiet(World, World', touched')
  <2>1. World'.page = page' /\ World'.signal = signal
    BY <1>1 DEF World
  <2>2. u \notin touched' => Has(World, u) = {}
    <3>1. The(page[u]).modified <=> Has(World, u) # {}
      BY <1>0, <1>1 DEF Fit, FitAt
    <3> QED BY <1>4, <3>1
  <2>3. ASSUME NEW v \in Urls \ touched'
        PROVE  /\ Shown(World', v) => Shown(World, v) /\ World'.page[v] = World.page[v]
               /\ Shown(World, v) /\ Has(World, v) # {} => Shown(World', v)
    <3>1. CASE v = u
      BY <1>2, <2>1, <2>2, <2>3, <3>1 DEF Shown
    <3>2. CASE v # u
      BY <1>0, <1>2, <2>1, <3>2 DEF Shown
    <3> QED BY <3>1, <3>2
  <2> QED BY <2>3 DEF Quiet
<1> QED BY <1>1, <1>3, <1>4, <1>5, PagesHeld

LEMMA ReportHolds == ASSUME TypeOK, HeldHere, NEW u \in Urls, Report(u) PROVE HeldHere'
<1>0. page \in [Urls -> Maybe(Editors)] /\ Fit(World)
      /\ World.disk = disk /\ World.page = page /\ World.signal = signal
  BY TypesAre, WorldsTypes DEF HeldHere, Pages
<1>1. /\ u \in signal /\ signal' = signal \ {u} /\ page' = [page EXCEPT ![u] = {}]
      /\ UNCHANGED <<disk, stage, group, transaction, touched, atBegin, atCommit>>
  BY DEF Report, ghosts
<1>2. page'[u] = {} /\ \A v \in Urls : v # u => page'[v] = page[v]
  BY <1>0, <1>1
<1>3. Fit(World')
  BY <1>0, <1>1, <1>2, PageFit
<1>5. Quiet(World, World', touched')
  <2>1. World'.page = page' /\ World'.signal = signal'
    BY DEF World
  <2>3. ASSUME NEW v \in Urls \ touched'
        PROVE  /\ Shown(World', v) => Shown(World, v) /\ World'.page[v] = World.page[v]
               /\ Shown(World, v) /\ Has(World, v) # {} => Shown(World', v)
    <3>1. CASE v = u
      BY <1>0, <1>1, <1>2, <2>1, <3>1 DEF Shown
    <3>2. CASE v # u
      BY <1>0, <1>1, <1>2, <2>1, <3>2 DEF Shown
    <3> QED BY <3>1, <3>2
  <2> QED BY <2>3 DEF Quiet
<1> QED BY <1>1, <1>3, <1>5, PagesHeld

LEMMA UserHolds ==
  ASSUME TypeOK, HeldHere, NEW u \in Urls, Open(u) \/ Type(u) \/ Close(u) \/ Report(u) \/ Destroyed(u)
  PROVE  HeldHere'
<1>1. CASE Open(u)
  BY <1>1, LoadedHeld DEF Open
<1>2. CASE Destroyed(u)
  <2>1. PICK us : us = IF disk[u] # {} THEN {u} ELSE {}
    OBVIOUS
  <2>2. Loaded(us) /\ UNCHANGED <<stage, group, ghosts>>
    BY <1>2, <2>1 DEF Destroyed
  <2> QED BY <2>1, <2>2, LoadedHeld
<1> QED BY <1>1, <1>2, TypeHolds, CloseHolds, ReportHolds

(* What is shown without edits is its file. *)
LEMMA PlainContent ==
  ASSUME TypeOK, Fit(World), NEW T, NEW X, Bare(World, T, X), NEW u \in Urls \ (T \cup X)
  PROVE  Content(u) = disk[u]
<1>1. World.disk = disk /\ World.page = page /\ World.signal = signal
  BY TypesAre, WorldsTypes
<1>2. CASE page[u] # {} /\ u \notin signal
  <2>1. Text(u) = {}
    BY <1>1, <1>2 DEF Bare, Shown, Has, Text
  <2>2. disk[u] \subseteq {{}} /\ disk[u] # {}
    BY <1>1, <1>2 DEF Fit, FitAt
  <2>3. disk[u] = {{}}
    BY <2>2
  <2> QED BY <1>2, <2>1, <2>3 DEF Content
<1>3. CASE ~(page[u] # {} /\ u \notin signal)
  BY <1>3 DEF Content
<1> QED BY <1>2, <1>3

LEMMA BeginHolds == ASSUME TypeOK, HeldHere, SavedHere, Begin PROVE HeldHere'
<1>1. World \in Worlds /\ World.disk = disk /\ World.page = page /\ World.signal = signal
  BY TypesAre, WorldsTypes
<1>2. /\ stage = "before" /\ stage' = "open" /\ World' = World /\ UNCHANGED <<group, disk, touched, atCommit>>
      /\ transaction' = [u \in {v \in Urls : page[v] # {}} |-> Recorded(World, u)]
      /\ atBegin' = [u \in Urls |-> Content(u)]
  BY DEF Begin, World, world
<1>3. /\ Pages(World, group.steps, group.applied, transaction, stage, touched) /\ Fit(World)
      /\ Fresh(World, transaction, touched) /\ group.steps = << >>
  BY <1>2 DEF HeldHere, Pages
<1>4. transaction = << >> /\ DOMAIN transaction = {}
  <2>1. transaction = << >>
    BY <1>2 DEF SavedHere, SavedAt
  <2> QED BY <2>1
<1>5. Bare(World, touched, {})
  BY <1>3, <1>4 DEF Fresh, Bare
<1>6. \A u \in Urls \ touched : atBegin'[u] = disk[u]
  <2>1. PICK T, X : T = touched /\ X = {}
    OBVIOUS
  <2>2. \A u \in Urls \ T : Content(u) = disk[u]
    BY <1>3, <1>5, <2>1, PlainContent
  <2> QED BY <1>2, <2>1, <2>2
<1>7. Sound(transaction')
  <2>1. DOMAIN transaction' \subseteq {v \in Urls : page[v] # {}}
    BY <1>2
  <2>2. ASSUME NEW u \in Urls, page[u] # {}
        PROVE  /\ Recorded(World, u).before \subseteq Recorded(World, u).after
               /\ Recorded(World, u).dirty <=> Recorded(World, u).before # {}
    BY <1>1, <1>3, <2>2, RecordedSound
  <2> QED BY <1>2, <2>1, <2>2 DEF Sound
<1>8. Fresh(World, transaction', touched)
  BY <1>5 DEF Fresh, Bare
<1>9. Pages(World, group.steps, group.applied, transaction', "open", touched)
  BY <1>2, <1>3, <1>7, <1>8 DEF Pages
<1>10. Trail(disk, group.steps, group.applied, "open", touched, atBegin', atCommit)
  <2>1. PICK P : TrailOn(P, disk, group.steps, group.applied, stage, touched, atBegin, atCommit)
    BY DEF HeldHere, Trail
  <2>2. Len(group.steps) = 0
    BY <1>3
  <2>3. disk = P[0]
    BY <2>1, <2>2 DEF TrailOn
  <2>4. Begins(P, touched, atBegin')
    BY <1>6, <2>3 DEF Begins
  <2>5. TrailOn(P, disk, group.steps, group.applied, "open", touched, atBegin', atCommit)
    BY <2>1, <2>4 DEF TrailOn
  <2> QED BY <2>5 DEF Trail
<1> QED BY <1>2, <1>9, <1>10 DEF HeldHere

(* A refused call leaves all but the error as it is. *)
LEMMA SameHeld ==
  ASSUME TypeOK, HeldHere, UNCHANGED <<world, transaction, stage, ghosts, group>>
  PROVE  HeldHere'
<1>1. World' = World
  BY DEF World, world
<1> QED BY <1>1 DEF HeldHere, ghosts, world

LEMMA EditHolds ==
  ASSUME TypeOK, SavedHere, HeldHere, NEW u \in Urls, Edit(u), ~group'.error
  PROVE  HeldHere'
<1>1. World \in Worlds /\ transaction \in Docs /\ group \in Groups /\ World.disk = disk
  BY TypesAre, WorldsTypes
<1>2. PICK w, us, open, joined, T : /\ w = World /\ us = {u} /\ open = Opened(w, us)
                                    /\ joined = Joined(transaction, w, open) /\ T = touched
  OBVIOUS
<1>3. open \in Worlds /\ open.page[u] # {} /\ open.disk = w.disk /\ open.signal = w.signal
  <2>1. /\ open \in Worlds /\ open.page[u] # {} /\ Same(open.disk, w.disk) /\ Same(open.signal, w.signal)
    BY <1>1, <1>2, OpenedIs
  <2> QED BY <2>1 DEF Same
<1>4. /\ SavedAt(w, group, transaction, stage) /\ stage = "open" /\ w.disk[u] # {}
      /\ UNCHANGED <<stage, touched, atBegin, atCommit>>
  BY <1>1, <1>2 DEF SavedHere, SavedAt, Edit, Call, ghosts
<1>5. u \notin w.signal
  BY <1>4 DEF SavedAt
<1>6. /\ Fit(w) /\ Sound(transaction) /\ Fresh(w, transaction, T)
      /\ DocsAt(group.steps, Len(group.steps)) = {}
  BY <1>2, <1>4 DEF HeldHere, Pages
<1>7. Fit(open) /\ Opens(w, open)
  <2>1. \A v \in us \cap Urls : w.disk[v] # {}
    BY <1>2, <1>4
  <2> QED BY <1>1, <1>2, <1>6, <2>1, OpenedFit
<1>8. joined \in Docs /\ Sound(joined) /\ Follows(transaction, joined, w, open)
  <2>1. joined \in Docs
    BY <1>1, <1>2, <1>3, JoinedIs
  <2>2. PICK docs : docs = transaction
    OBVIOUS
  <2>3. Sound(joined) /\ Follows(docs, joined, w, open)
    BY <1>1, <1>2, <1>3, <1>6, <1>7, <2>2, JoinedSound
  <2> QED BY <2>1, <2>2, <2>3
<1>9. Fresh(open, joined, T)
  <2>1. PICK docs : docs = transaction
    OBVIOUS
  <2> QED BY <1>6, <1>7, <1>8, <2>1, OpensHides, HidesFresh
<1>10. PICK now, text, new, changed :
        /\ now = The(open.page[u])
        /\ text = now.text \cup {<<"agent", used.tools + 1>>}
        /\ new = IF u \in DOMAIN joined THEN joined[u] ELSE Recorded(open, u)
        /\ changed = [new EXCEPT !.after = text]
  OBVIOUS
<1>11. /\ Becomes([open EXCEPT !.page[u] = {[text |-> text, modified |-> TRUE]}])
       /\ transaction' = [v \in DOMAIN joined \cup {u} |-> IF v = u THEN changed ELSE joined[v]]
       /\ UNCHANGED group /\ new.after = now.text
  <2>1. ~Invalid
    <3>1. group = [steps |-> group.steps, applied |-> group.applied, error |-> group.error]
      BY <1>1, GroupIs
    <3>2. ASSUME Invalid PROVE group'.error
      <4>1. group' = [group EXCEPT !.error = TRUE]
        BY <3>2 DEF Invalid
      <4> QED BY ONLY <3>1, <4>1
    <3> QED BY <3>2
  <2> QED BY <1>2, <1>10, <2>1 DEF Edit
<1>12. text \in Texts /\ new \in States
  <2>1. now.text \in Texts
    BY <1>3, <1>10, PageIs
  <2>2. text \in Texts
    <3>1. Call("edit")
      BY DEF Edit
    <3> QED BY <1>10, <2>1, <3>1, CallCounts, AgentText
  <2>3. new \in States
    BY <1>3, <1>8, <1>10, RecordedIs, DocsAre
  <2> QED BY <2>2, <2>3
<1>13. PICK p, w2 : p = {[text |-> text, modified |-> TRUE]} /\ w2 = [open EXCEPT !.page[u] = p]
  OBVIOUS
<1>14. /\ w2 \in Worlds /\ w2.disk = open.disk /\ w2.signal = open.signal
       /\ w2.page[u] = p /\ \A v \in Urls : v # u => w2.page[v] = open.page[v]
  <2>1. w2 \in Worlds
    BY <1>3, <1>12, <1>13, PutPage
  <2>2. open = [disk |-> open.disk, page |-> open.page, signal |-> open.signal]
        /\ open.page \in [Urls -> Maybe(Editors)]
    BY <1>3 DEF Worlds
  <2>3. w2.disk = open.disk /\ w2.signal = open.signal /\ w2.page = [open.page EXCEPT ![u] = p]
    BY ONLY <1>13, <2>2
  <2> QED BY <2>1, <2>2, <2>3
<1>15. World' = w2
  <2>1. Becomes(w2)
    BY <1>11, <1>13
  <2>2. Same(World', w2)
    BY <1>14, <2>1, BecomesIs
  <2> QED BY <2>2 DEF Same
<1>16. p # {} /\ The(p).text = text /\ The(p).modified /\ text # {}
  <2>1. p # {} /\ Same(The(p).text, text) /\ Same(The(p).modified, TRUE)
    BY <1>13, EditorHas
  <2>2. text # {}
    BY <1>10
  <2> QED BY <2>1, <2>2 DEF Same
<1>17. Fit(w2)
  <2>1. ASSUME NEW v \in Urls PROVE FitAt(w2, v)
    <3>1. FitAt(open, v)
      BY <1>7 DEF Fit
    <3>2. CASE v = u
      BY <1>3, <1>4, <1>14, <1>16, <3>1, <3>2 DEF FitAt, Has
    <3>3. CASE v # u
      BY <1>14, <3>1, <3>3 DEF FitAt, Has
    <3> QED BY <3>2, <3>3
  <2> QED BY <2>1 DEF Fit
<1>18. changed.before = new.before /\ changed.dirty = new.dirty /\ changed.after = text
  <2>1. new = [before |-> new.before, after |-> new.after, dirty |-> new.dirty]
    BY <1>12 DEF States
  <2> QED BY ONLY <1>10, <2>1
<1>19. new.before \subseteq new.after /\ (new.dirty <=> new.before # {})
  BY <1>3, <1>7, <1>8, <1>10, RecordedSound DEF Sound
<1>20. DOMAIN transaction' = DOMAIN joined \cup {u} /\ transaction'[u] = changed
       /\ \A v \in DOMAIN joined : v # u => transaction'[v] = joined[v]
  BY <1>11
<1>21. Sound(transaction')
  <2>1. changed.before \subseteq changed.after /\ (changed.dirty <=> changed.before # {})
    <3>1. now.text \subseteq text
      BY <1>10
    <3>2. changed.before \subseteq changed.after
      BY <1>11, <1>18, <1>19, <3>1
    <3> QED BY <1>18, <1>19, <3>2
  <2> QED BY <1>8, <1>20, <2>1 DEF Sound
<1>22. u \notin T => new.before = {}
  <2> SUFFICES ASSUME u \notin T PROVE new.before = {}
    OBVIOUS
  <2>1. CASE now.text = {}
    BY <1>11, <1>19, <2>1
  <2>2. CASE now.text # {}
    <3>1. Shown(open, u) /\ Has(open, u) # {}
      BY <1>3, <1>5, <1>10, <2>2 DEF Shown, Has
    <3>2. u \in DOMAIN joined /\ joined[u].before = {}
      BY <1>9, <3>1 DEF Fresh
    <3> QED BY <1>10, <3>2
  <2> QED BY <2>1, <2>2
<1>23. Fresh(w2, transaction', T)
  <2>1. ASSUME NEW v \in Urls \ T, Shown(w2, v), Has(w2, v) # {}
        PROVE  v \in DOMAIN transaction' /\ transaction'[v].before = {} /\ Has(w2, v) = transaction'[v].after
    <3>1. CASE v = u
      BY <1>14, <1>16, <1>18, <1>20, <1>22, <3>1, <2>1 DEF Has
    <3>2. CASE v # u
      <4>1. Shown(open, v) /\ Has(open, v) # {} /\ Has(w2, v) = Has(open, v)
        BY <1>14, <2>1, <3>2 DEF Shown, Has
      <4>2. v \in DOMAIN joined /\ joined[v].before = {} /\ Has(open, v) = joined[v].after
        BY <1>9, <4>1, <2>1 DEF Fresh
      <4> QED BY <1>20, <3>2, <4>1, <4>2
    <3> QED BY <3>1, <3>2
  <2> QED BY <2>1 DEF Fresh
<1>24. Pages(w2, group.steps, group.applied, transaction', "open", T)
  BY <1>6, <1>17, <1>21, <1>23 DEF Pages
<1>25. Trail(disk', group.steps, group.applied, stage, touched, atBegin, atCommit)
  <2>1. disk' = disk
    <3>1. World'.disk = disk'
      BY DEF World
    <3> QED BY <1>1, <1>2, <1>3, <1>14, <1>15, <3>1
  <2> QED BY <2>1 DEF HeldHere
<1> QED BY <1>2, <1>4, <1>11, <1>15, <1>24, <1>25 DEF HeldHere

(* A step more on the path. *)
StaysGone(steps, d) == \A u \in FreedOf(steps) : d[u] = {}
MayEnd(steps, n, step) == n # 0 => Flushed(steps[n], step)
Added(steps, step, new) == new = steps \o <<step>>
Longer(new, e, P, T) == \E Q : Path(new, Q) /\ Shape(new, Q, T) /\ Q[Len(new)] = e /\ Q[0] = P[0]

LEMMA TrailMore ==
  ASSUME NEW steps \in Seq(Steps), NEW P, NEW T, Path(steps, P), Shape(steps, P, T), NEW n, n = Len(steps),
         NEW step \in Steps, NEW d, d = P[n], NEW e \in Files, Leads(step, d, e), PlainStep(step, T),
         MayEnd(steps, n, step), NEW new, Added(steps, step, new), StaysGone(new, e)
  PROVE  /\ new \in Seq(Steps) /\ Len(new) = n + 1 /\ new[n + 1] = step
         /\ Longer(new, e, P, T)
<1>1. /\ n \in Nat /\ new \in Seq(Steps) /\ Len(new) = n + 1 /\ new[n + 1] = step
      /\ \A k \in 1 .. n : new[k] = steps[k]
  BY DEF Added
<1>2. PICK Q : Q = [k \in 0 .. n + 1 |-> IF k = n + 1 THEN e ELSE P[k]]
  OBVIOUS
<1>3. P \in [0 .. n -> Files] /\ \A k \in 1 .. n : Leads(steps[k], P[k - 1], P[k])
  BY DEF Path
<1>4. Q \in [0 .. n + 1 -> Files] /\ Q[n + 1] = e /\ \A k \in 0 .. n : Q[k] = P[k]
  <2>1. \A k \in 0 .. n + 1 : (IF k = n + 1 THEN e ELSE P[k]) \in Files
    BY <1>1, <1>3
  <2> QED BY <1>1, <1>2, <2>1
<1>5. ASSUME NEW k \in 1 .. n + 1 PROVE Leads(new[k], Q[k - 1], Q[k])
  <2>1. CASE k = n + 1
    BY <1>1, <1>4, <2>1
  <2>2. CASE k \in 1 .. n
    <3>1. k - 1 \in 0 .. n /\ k \in 0 .. n
      BY <1>1, <2>2
    <3> QED BY <1>1, <1>3, <1>4, <2>2, <3>1
  <2> QED BY <1>1, <2>1, <2>2
<1>6. Path(new, Q)
  BY <1>1, <1>4, <1>5 DEF Path
<1>7. ASSUME NEW k \in 1 .. n + 1, NEW u \in Takes(new[k]) PROVE u \in FreedOf(new)
  <2>1. k \in DOMAIN new
    BY <1>1
  <2>2. new[k].kind \in {"delete", "rename"} /\ u = new[k].url
    BY <1>7 DEF Takes
  <2> QED BY <2>1, <2>2 DEF FreedOf
<1>8. ASSUME NEW k \in 1 .. n + 1 PROVE GoneFrom(new[k], Q, k, n + 1)
  <2> SUFFICES ASSUME NEW u \in Takes(new[k]), NEW m \in k .. n + 1 PROVE Q[m][u] = {}
    BY DEF GoneFrom
  <2>1. CASE m = n + 1
    BY <1>4, <1>7, <2>1 DEF StaysGone
  <2>2. CASE m # n + 1
    <3>1. k \in 1 .. n /\ m \in k .. n /\ m \in 0 .. n
      BY <1>1, <2>2
    <3>2. GoneFrom(steps[k], P, k, n)
      BY <3>1 DEF Shape
    <3>3. P[m][u] = {}
      BY <1>1, <3>1, <3>2 DEF GoneFrom
    <3> QED BY <1>4, <3>1, <3>3
  <2> QED BY <2>1, <2>2
<1>9. ASSUME NEW k \in 1 .. n + 1 PROVE PlainStep(new[k], T)
  <2>1. CASE k = n + 1
    BY <1>1, <2>1
  <2>2. CASE k \in 1 .. n
    BY <1>1, <2>2 DEF Shape
  <2> QED BY <1>1, <2>1, <2>2
<1>10. ASSUME NEW k \in 1 .. n + 1, k < n + 1 PROVE Flushed(new[k], new[k + 1])
  <2>0. k \in 1 .. n
    BY <1>1, <1>10
  <2>1. CASE k = n
    BY <1>1, <2>0, <2>1 DEF MayEnd
  <2>2. CASE k # n
    <3>1. k < n /\ k + 1 \in 1 .. n
      BY <1>1, <2>0, <2>2
    <3>2. Flushed(steps[k], steps[k + 1])
      BY <2>0, <3>1 DEF Shape
    <3> QED BY <1>1, <2>0, <3>1, <3>2
  <2> QED BY <2>1, <2>2
<1>11. Shape(new, Q, T)
  BY <1>1, <1>8, <1>9, <1>10 DEF Shape
<1>12. Q[0] = P[0]
  BY <1>1, <1>4
<1>13. Longer(new, e, P, T)
  BY <1>1, <1>4, <1>6, <1>11, <1>12 DEF Longer
<1> QED BY <1>1, <1>13

(* The path of a turn that is open. *)
OpenTrail(steps, d, T, b) ==
  \E P : Path(steps, P) /\ Shape(steps, P, T) /\ d = P[Len(steps)] /\ Begins(P, T, b)

LEMMA OpenMore ==
  ASSUME NEW steps \in Seq(Steps), NEW d, NEW T, NEW b, OpenTrail(steps, d, T, b), NEW n, n = Len(steps),
         NEW step \in Steps, NEW e \in Files, Leads(step, d, e), PlainStep(step, T),
         MayEnd(steps, n, step), NEW new, Added(steps, step, new), StaysGone(new, e)
  PROVE  new \in Seq(Steps) /\ Len(new) = n + 1 /\ new[n + 1] = step /\ OpenTrail(new, e, T, b)
<1>1. PICK P : Path(steps, P) /\ Shape(steps, P, T) /\ d = P[n] /\ Begins(P, T, b)
  BY DEF OpenTrail
<1>3. /\ new \in Seq(Steps) /\ Len(new) = n + 1 /\ new[n + 1] = step
      /\ Longer(new, e, P, T)
  BY <1>1, TrailMore
<1>4. PICK Q : Path(new, Q) /\ Shape(new, Q, T) /\ Q[Len(new)] = e /\ Q[0] = P[0]
  BY <1>3 DEF Longer
<1>5. Begins(Q, T, b)
  BY <1>1, <1>4 DEF Begins
<1>6. OpenTrail(new, e, T, b)
  <2> QED BY <1>4, <1>5 DEF OpenTrail
<1> QED BY <1>3, <1>6

LEMMA OpenIs ==
  ASSUME TypeOK, HeldHere, SavedHere, stage = "open"
  PROVE  /\ OpenTrail(group.steps, disk, touched, atBegin) /\ group.applied
         /\ Fit(World) /\ Sound(transaction) /\ Fresh(World, transaction, touched)
         /\ DocsAt(group.steps, Len(group.steps)) = {}
         /\ World.signal \subseteq FreedOf(group.steps) /\ \A u \in FreedOf(group.steps) : disk[u] = {}
<1>1. World.disk = disk
  BY TypesAre, WorldsTypes
<1>2. /\ group.applied /\ World.signal \subseteq FreedOf(group.steps)
      /\ \A u \in FreedOf(group.steps) : disk[u] = {}
  BY <1>1 DEF SavedHere, SavedAt
<1>3. /\ Fit(World) /\ Sound(transaction) /\ Fresh(World, transaction, touched)
      /\ DocsAt(group.steps, Len(group.steps)) = {}
  BY DEF HeldHere, Pages
<1>4. OpenTrail(group.steps, disk, touched, atBegin)
  <2>1. PICK P : TrailOn(P, disk, group.steps, group.applied, stage, touched, atBegin, atCommit)
    BY DEF HeldHere, Trail
  <2> QED BY <1>2, <2>1 DEF TrailOn, OpenTrail
<1> QED BY <1>2, <1>3, <1>4

(* A call that leaves the turn open. *)
LEMMA StillOpen ==
  ASSUME TypeOK, HeldHere, stage' = "open", UNCHANGED ghosts,
         group'.applied, NEW d, d = disk', NEW steps, steps = group'.steps,
         OpenTrail(steps, d, touched, atBegin), DocsAt(steps, Len(steps)) = {},
         NEW w, w = World', Fit(w), NEW docs, docs = transaction', Sound(docs), Fresh(w, docs, touched)
  PROVE  HeldHere'
<1>1. Pages(w, steps, group'.applied, docs, "open", touched)
  BY DEF Pages
<1>2. PICK P : Path(steps, P) /\ Shape(steps, P, touched) /\ d = P[Len(steps)] /\ Begins(P, touched, atBegin)
  BY DEF OpenTrail
<1>3. TrailOn(P, d, steps, group'.applied, "open", touched, atBegin, atCommit)
  BY <1>2 DEF TrailOn
<1>4. Trail(d, steps, group'.applied, "open", touched, atBegin, atCommit)
  BY <1>3 DEF Trail
<1> QED BY <1>1, <1>4 DEF HeldHere, ghosts

LEMMA EmptyFlushed ==
  ASSUME NEW steps, NEW n, n = Len(steps), DocsAt(steps, n) = {}, NEW step
  PROVE  MayEnd(steps, n, step)
<1> QED BY DEF DocsAt, Flushed, MayEnd

LEMMA LastIs ==
  ASSUME NEW new, NEW n \in Nat, Len(new) = n + 1, NEW step, new[n + 1] = step
  PROVE  DocsAt(new, Len(new)) = EditDocs(step)
<1>1. Len(new) # 0
  OBVIOUS
<1> QED BY <1>1 DEF DocsAt

LEMMA CreateHolds ==
  ASSUME TypeOK, HeldHere, SavedHere, SavedHere', Apart, Apart', NEW u \in Urls, CreateFile(u)
  PROVE  HeldHere'
<1>1. World \in Worlds /\ transaction \in Docs /\ group \in Groups /\ World.disk = disk
  BY TypesAre, WorldsTypes
<1>2. PICK w, step, r, joined, T : /\ w = World /\ step = Step("create", u, u) /\ r = Create(w, step)
                                   /\ joined = Joined(transaction, w, r.w) /\ T = touched
  OBVIOUS
<1>3. step \in Steps /\ step.kind = "create" /\ step.url = u /\ step.trash = {}
  BY <1>2, FileStepIs
<1>4. /\ Clean(w) /\ stage = "open" /\ stage' = "open" /\ w.disk[u] = {} /\ UNCHANGED ghosts
  <2>1. stage = "open" /\ UNCHANGED stage
    BY CallToFree DEF CreateFile
  <2>2. w.disk[u] = {} /\ UNCHANGED ghosts
    BY <1>1, <1>2 DEF CreateFile, CallTo
  <2> QED BY <1>2, <2>1, <2>2 DEF SavedHere, SavedAt
<1>5. /\ OpenTrail(group.steps, w.disk, T, atBegin) /\ group.applied
      /\ Fit(w) /\ Sound(transaction) /\ Fresh(w, transaction, T)
      /\ DocsAt(group.steps, Len(group.steps)) = {}
  BY <1>1, <1>2, <1>4, OpenIs
<1>6. /\ r.step = step /\ r.w \in Worlds /\ r.w.disk = [w.disk EXCEPT ![u] = {{}}]
  <2>1. /\ Same(r.step, step)
        /\ Same(r.w.disk, [w.disk EXCEPT ![step.url] = IF step.trash = {} THEN {{}} ELSE step.trash])
    BY <1>1, <1>2, <1>3, <1>4, CreateClean
  <2>2. r.w \in Worlds
    BY <1>1, <1>2, <1>3, CreateIs
  <2>3. (IF step.trash = {} THEN {{}} ELSE step.trash) = {{}}
    BY <1>3
  <2> QED BY ONLY <1>3, <2>1, <2>2, <2>3 DEF Same
<1>7. Becomes(r.w) /\ Push(<<step>>) /\ transaction' = joined
  BY <1>2, <1>6 DEF CreateFile
<1>8. World' = r.w /\ disk' = r.w.disk
  <2>1. Same(World', r.w)
    BY <1>6, <1>7, BecomesIs
  <2> QED BY <1>7, <2>1 DEF Same, Becomes
<1>9. PlainStep(step, T)
  BY <1>3 DEF PlainStep
<1>10. Fit(r.w) /\ Hides(w, r.w)
  <2>1. step.kind # "edit" /\ w \in Worlds
    BY <1>1, <1>2, <1>3
  <2> QED BY <1>2, <1>3, <1>5, <1>9, <2>1, CreateHeld
<1>11. Sound(joined) /\ Follows(transaction, joined, w, r.w)
  <2>1. PICK docs, w2 : docs = transaction /\ w2 = r.w
    OBVIOUS
  <2>2. Sound(joined) /\ Follows(docs, joined, w, w2)
    BY <1>1, <1>2, <1>5, <1>6, <1>10, <2>1, JoinedSound
  <2> QED BY <2>1, <2>2
<1>12. Fresh(r.w, joined, T)
  <2>1. PICK docs, w2 : docs = transaction /\ w2 = r.w
    OBVIOUS
  <2>2. Fresh(w2, joined, T)
    BY <1>5, <1>10, <1>11, <2>1, HidesFresh
  <2> QED BY <2>1, <2>2
<1>13. PICK steps, n, d, e, new : /\ steps = group.steps /\ n = Len(steps) /\ d = w.disk /\ e = r.w.disk
                                  /\ new = steps \o <<step>>
  OBVIOUS
<1>14. steps \in Seq(Steps) /\ d \in Files /\ e \in Files /\ n \in Nat
  <2>1. steps \in Seq(Steps)
    BY <1>1, <1>13, GroupIs
  <2>2. d \in Files /\ e \in Files
    BY <1>1, <1>2, <1>6, <1>13 DEF Worlds, Files
  <2>3. n \in Nat
    BY <1>13, <2>1
  <2> QED BY <2>1, <2>2, <2>3
<1>15. group'.steps = new /\ group'.applied
  <2>1. group'.steps = group.steps \o <<step>> /\ group'.applied = group.applied
    BY <1>1, <1>7, PushIs DEF Push
  <2> QED BY <1>5, <1>13, <2>1
<1>16. StaysGone(new, e)
  <2>1. SavedAt(World, group, transaction, stage)'
    BY DEF SavedHere
  <2> QED BY <1>4, <1>8, <1>13, <1>15, <2>1 DEF SavedAt, StaysGone
<1>17. new \in Seq(Steps) /\ Len(new) = n + 1 /\ new[n + 1] = step /\ OpenTrail(new, e, T, atBegin)
  <2>1. Leads(step, d, e)
    BY <1>3, <1>4, <1>6, <1>13 DEF Leads
  <2>2. MayEnd(steps, n, step)
    BY <1>5, <1>13, EmptyFlushed
  <2>3. PICK b : b = atBegin
    OBVIOUS
  <2>4. OpenTrail(steps, d, T, b)
    BY <1>5, <1>13, <2>3
  <2>5. Added(steps, step, new)
    BY <1>13 DEF Added
  <2>6. new \in Seq(Steps) /\ Len(new) = n + 1 /\ new[n + 1] = step /\ OpenTrail(new, e, T, b)
    <3>1. /\ steps \in Seq(Steps) /\ n = Len(steps) /\ step \in Steps /\ e \in Files
          /\ PlainStep(step, T) /\ StaysGone(new, e)
      BY <1>3, <1>9, <1>13, <1>14, <1>16
    <3> QED BY ONLY <2>1, <2>2, <2>4, <2>5, <3>1, OpenMore
  <2> QED BY <2>3, <2>6
<1>18. DocsAt(new, Len(new)) = {}
  <2>1. EditDocs(step) = {}
    BY <1>3 DEF EditDocs
  <2> QED BY <1>14, <1>17, <2>1, LastIs
<1> QED
  <2>1. PICK w2 : w2 = World'
    OBVIOUS
  <2>2. Fit(w2) /\ Sound(joined) /\ Fresh(w2, joined, touched) /\ OpenTrail(new, e, touched, atBegin)
    BY <1>2, <1>8, <1>10, <1>11, <1>12, <1>17, <2>1
  <2>3. e = disk' /\ new = group'.steps /\ joined = transaction'
    BY <1>7, <1>8, <1>13, <1>15
  <2> QED BY <1>4, <1>15, <1>18, <2>1, <2>2, <2>3, StillOpen

LEMMA RenamedKeeps ==
  ASSUME NEW docs, Sound(docs), NEW u, NEW v, NEW w, NEW w2, ~Shown(w2, u), ~Shown(w, v), NEW j, j = Renamed(docs, u, v)
  PROVE  Sound(j) /\ Follows(docs, j, w, w2)
<1>1. /\ DOMAIN j = (DOMAIN docs \ {u}) \cup (IF u \in DOMAIN docs THEN {v} ELSE {})
      /\ \A x \in DOMAIN j : j[x] = IF x = v /\ u \in DOMAIN docs THEN docs[u] ELSE docs[x]
  BY DEF Renamed
<1>2. ASSUME NEW x \in DOMAIN j PROVE j[x].before \subseteq j[x].after /\ (j[x].dirty <=> j[x].before # {})
  <2>1. PICK y \in DOMAIN docs : j[x] = docs[y]
    BY <1>1
  <2> QED BY <2>1 DEF Sound
<1>3. ASSUME NEW x \in DOMAIN docs, Shown(w, x), Shown(w2, x) PROVE x \in DOMAIN j /\ j[x] = docs[x]
  <2>1. x # u /\ x # v
    BY <1>3
  <2> QED BY <1>1, <2>1
<1> QED BY <1>2, <1>3 DEF Sound, Follows

(* A refused call leaves the group in error. *)
LEMMA ErrorStays == ASSUME group \in Groups, ~group'.error PROVE ~Invalid
<1>1. group = [steps |-> group.steps, applied |-> group.applied, error |-> group.error]
  BY GroupIs
<1>2. ASSUME Invalid PROVE group'.error
  <2>1. group' = [group EXCEPT !.error = TRUE]
    BY <1>2 DEF Invalid
  <2> QED BY ONLY <1>1, <2>1
<1> QED BY <1>2

LEMMA RenameHolds ==
  ASSUME TypeOK, HeldHere, SavedHere, SavedHere', Apart, Apart', ~group'.error,
         NEW u \in Urls, NEW v \in Urls, RenameFile(u, v)
  PROVE  HeldHere'
<1>1. World \in Worlds /\ transaction \in Docs /\ group \in Groups /\ World.disk = disk
  BY TypesAre, WorldsTypes
<1>2. PICK w, step, r, T : w = World /\ step = Step("rename", u, v) /\ r = Rename(w, u, v, step) /\ T = touched
  OBVIOUS
<1>3. step \in Steps /\ step.kind = "rename" /\ step.url = u /\ step.to = v /\ step.trash = {}
  BY <1>2, FileStepIs
<1>4. /\ Clean(w) /\ stage = "open" /\ stage' = "open" /\ w.disk[u] # {} /\ u # v /\ UNCHANGED ghosts
  <2>1. stage = "open" /\ UNCHANGED stage
    BY CallToFree DEF RenameFile
  <2>2. w.disk[u] # {} /\ u # v /\ UNCHANGED ghosts
    BY <1>1, <1>2 DEF RenameFile, CallTo
  <2> QED BY <1>2, <2>1, <2>2 DEF SavedHere, SavedAt
<1>5. /\ OpenTrail(group.steps, w.disk, T, atBegin) /\ group.applied
      /\ Fit(w) /\ Sound(transaction) /\ Fresh(w, transaction, T)
      /\ DocsAt(group.steps, Len(group.steps)) = {}
  BY <1>1, <1>2, <1>4, OpenIs
<1>6. ~Invalid
  BY <1>1, ErrorStays
<1>7. \/ UNCHANGED <<world, transaction, group>>
      \/ /\ r.ok /\ Becomes(r.w) /\ Push(<<r.step>>)
         /\ transaction' = Renamed(transaction, u, v)
  <2>1. r.ok \in BOOLEAN
    BY <1>1, <1>2, <1>3, RenameIs
  <2> QED BY <1>2, <1>6, <2>1 DEF RenameFile
<1>8. CASE UNCHANGED <<world, transaction, group>>
  BY <1>4, <1>8, SameHeld
<1>9. CASE r.ok /\ Becomes(r.w) /\ Push(<<r.step>>) /\ transaction' = Renamed(transaction, u, v)
  <2>1. w.disk[v] = {}
    <3>1. w.disk[u] = {} \/ w.disk[v] # {} => r = Fails(w, step)
      BY <1>2 DEF Rename
    <3> QED BY <1>9, <3>1 DEF Fails
  <2>2. /\ r.step = step /\ r.w \in Worlds
        /\ r.w.disk = [w.disk EXCEPT ![u] = {}, ![v] = w.disk[u]]
        /\ r.w.signal = Reported(w, u)
    <3>1. /\ Same(r.step, step) /\ Same(r.w.disk, [w.disk EXCEPT ![u] = {}, ![v] = w.disk[u]])
      BY <1>1, <1>2, <1>3, <1>4, <2>1, RenameClean
    <3>2. r.w \in Worlds /\ Same(r.w.signal, Reported(w, u))
      BY <1>1, <1>2, <1>3, <1>9, RenameIs
    <3> QED BY <3>1, <3>2 DEF Same
  <2>3. Push(<<step>>)
    BY <1>9, <2>2
  <2>4. World' = r.w /\ disk' = r.w.disk
    <3>1. Same(World', r.w)
      BY <1>9, <2>2, BecomesIs
    <3> QED BY <1>9, <3>1 DEF Same, Becomes
  <2>5. PlainStep(step, T)
    BY <1>3 DEF PlainStep
  <2>6. Fit(r.w) /\ Hides(w, r.w)
    <3>1. w \in Worlds
      BY <1>1, <1>2
    <3> QED BY <1>2, <1>3, <1>5, <3>1, RenameHeld
  <2>7. PICK docs, j, w2 : docs = transaction /\ j = Renamed(docs, u, v) /\ w2 = r.w
    OBVIOUS
  <2>8. Sound(j) /\ Follows(docs, j, w, w2)
    <3>1. ~Shown(w, v)
      BY <1>5, <2>1 DEF Fit, FitAt, Shown
    <3>2. ~Shown(w2, u)
      <4>1. CASE w.page[u] # {}
        BY <2>2, <2>7, <4>1 DEF Reported, Shown
      <4>2. CASE w.page[u] = {}
        <5>1. Same(r.w.page, w.page)
          BY <1>1, <1>2, <1>3, <1>9, RenameIs
        <5> QED BY <2>7, <4>2, <5>1 DEF Shown, Same
      <4> QED BY <4>1, <4>2
    <3> QED BY <1>5, <2>7, <3>1, <3>2, RenamedKeeps
  <2>9. Fresh(w2, j, T)
    BY <1>5, <2>6, <2>7, <2>8, HidesFresh
  <2>10. PICK steps, n, d, e, new : /\ steps = group.steps /\ n = Len(steps) /\ d = w.disk /\ e = r.w.disk
                                    /\ new = steps \o <<step>>
    OBVIOUS
  <2>11. steps \in Seq(Steps) /\ d \in Files /\ e \in Files /\ n \in Nat
    <3>1. steps \in Seq(Steps)
      BY <1>1, <2>10, GroupIs
    <3>2. d \in Files /\ e \in Files
      BY <1>1, <1>2, <2>2, <2>10 DEF Worlds, Files
    <3>3. n \in Nat
      BY <2>10, <3>1
    <3> QED BY <3>1, <3>2, <3>3
  <2>12. group'.steps = new /\ group'.applied
    <3>1. group'.steps = group.steps \o <<step>> /\ group'.applied = group.applied
      BY <1>1, <2>3, PushIs DEF Push
    <3> QED BY <1>5, <2>10, <3>1
  <2>13. StaysGone(new, e)
    <3>1. SavedAt(World, group, transaction, stage)'
      BY DEF SavedHere
    <3> QED BY <1>4, <2>4, <2>10, <2>12, <3>1 DEF SavedAt, StaysGone
  <2>14. new \in Seq(Steps) /\ Len(new) = n + 1 /\ new[n + 1] = step /\ OpenTrail(new, e, T, atBegin)
    <3>1. Leads(step, d, e)
      BY <1>3, <1>4, <2>1, <2>2, <2>10 DEF Leads
    <3>2. MayEnd(steps, n, step)
      BY <1>5, <2>10, EmptyFlushed
    <3>3. PICK b : b = atBegin
      OBVIOUS
    <3>4. OpenTrail(steps, d, T, b) /\ Added(steps, step, new)
      BY <1>5, <2>10, <3>3 DEF Added
    <3>5. /\ steps \in Seq(Steps) /\ n = Len(steps) /\ step \in Steps /\ e \in Files
          /\ PlainStep(step, T) /\ StaysGone(new, e)
      BY <1>3, <2>5, <2>10, <2>11, <2>13
    <3>6. new \in Seq(Steps) /\ Len(new) = n + 1 /\ new[n + 1] = step /\ OpenTrail(new, e, T, b)
      BY ONLY <3>1, <3>2, <3>4, <3>5, OpenMore
    <3> QED BY <3>3, <3>6
  <2>15. DocsAt(new, Len(new)) = {}
    <3>1. EditDocs(step) = {}
      BY <1>3 DEF EditDocs
    <3> QED BY <2>11, <2>14, <3>1, LastIs
  <2>16. /\ Fit(w2) /\ Sound(j) /\ Fresh(w2, j, touched) /\ OpenTrail(new, e, touched, atBegin)
         /\ w2 = World' /\ e = disk' /\ new = group'.steps /\ j = transaction'
    BY <1>2, <1>9, <2>4, <2>6, <2>7, <2>8, <2>9, <2>10, <2>12, <2>14
  <2> QED BY <1>4, <2>12, <2>15, <2>16, StillOpen
<1> QED BY <1>7, <1>8, <1>9

LEMMA ForgetKeeps ==
  ASSUME NEW docs, Sound(docs), NEW us, NEW w, NEW w2, \A u \in us : ~Shown(w2, u), NEW j, j = Forget(docs, us)
  PROVE  Sound(j) /\ Follows(docs, j, w, w2)
<1>1. DOMAIN j = DOMAIN docs \ us /\ \A x \in DOMAIN j : j[x] = docs[x]
  BY DEF Forget
<1> QED BY <1>1 DEF Sound, Follows

(* The edits of a document that is the agent's own, and those of others. *)
LEMMA EditStepPlain ==
  ASSUME NEW docs, Sound(docs), NEW us, NEW step, step = EditStep(docs, us), NEW T,
         \A u \in Changed(docs, us) \ T : docs[u].before = {}
  PROVE  PlainStep(step, T) /\ EditDocs(step) = Changed(docs, us)
<1>1. step.kind = "edit" /\ DOMAIN step.docs = Changed(docs, us)
      /\ \A u \in Changed(docs, us) : step.docs[u] = docs[u]
  BY DEF EditStep
<1>2. \A u \in Changed(docs, us) : u \in DOMAIN docs /\ docs[u].before # docs[u].after
  BY DEF Changed
<1>3. Sound(step.docs)
  BY <1>1, <1>2 DEF Sound
<1> QED BY <1>1, <1>2, <1>3 DEF PlainStep, EditDocs

LEMMA DeleteHolds ==
  ASSUME TypeOK, HeldHere, SavedHere, SavedHere', ~group'.error, NEW u \in Urls, DeleteFile(u)
  PROVE  HeldHere'
<1>1. World \in Worlds /\ transaction \in Docs /\ group \in Groups /\ World.disk = disk
      /\ World.page = page /\ World.signal = signal
  BY TypesAre, WorldsTypes
<1>2. PICK w, step, r, us, edit, edits, docs, T :
        /\ w = World /\ step = Step("delete", u, u) /\ r = Trash(w, step) /\ docs = transaction
        /\ us = {u} /\ edit = EditStep(docs, us) /\ T = touched
        /\ edits = IF Changed(docs, us) = {} THEN << >> ELSE <<edit>>
  OBVIOUS
<1>3. step \in Steps /\ step.kind = "delete" /\ step.url = u /\ step.trash = {}
  BY <1>2, FileStepIs
<1>4. /\ Clean(w) /\ Over(docs, w.disk) /\ stage = "open" /\ stage' = "open" /\ w.disk[u] # {} /\ UNCHANGED ghosts
  <2>1. stage = "open" /\ UNCHANGED <<stage, ghosts>> /\ w.disk[u] # {}
    BY <1>1, <1>2 DEF DeleteFile, Call
  <2> QED BY <1>2, <2>1 DEF SavedHere, SavedAt, ghosts
<1>5. /\ OpenTrail(group.steps, w.disk, T, atBegin) /\ group.applied
      /\ Fit(w) /\ Sound(docs) /\ Fresh(w, docs, T)
      /\ DocsAt(group.steps, Len(group.steps)) = {}
      /\ w.signal \subseteq FreedOf(group.steps) /\ StaysGone(group.steps, w.disk)
  BY <1>1, <1>2, <1>4, OpenIs DEF StaysGone
<1>6. ~Invalid
  BY <1>1, ErrorStays
<1>7. Kept(u) /\ Becomes(r.w) /\ Push(edits \o <<r.step>>) /\ transaction' = Forget(docs, us)
  BY <1>2, <1>6 DEF DeleteFile
<1>8. PICK last, w2 : last = r.step /\ w2 = r.w
  OBVIOUS
<1>9. /\ w2.disk = [w.disk EXCEPT ![u] = {}] /\ w2 \in Worlds /\ last \in Steps
      /\ last.kind = "delete" /\ last.url = u /\ last.trash = w.disk[u]
  <2>1. /\ Same(r.w.disk, [w.disk EXCEPT ![step.url] = {}])
        /\ SameFile(r.step, step) /\ Same(r.step.trash, w.disk[step.url])
    BY <1>1, <1>2, <1>3, <1>4, TrashClean
  <2>2. r.w \in Worlds /\ r.step \in Steps
    BY <1>1, <1>2, <1>3, TrashIs
  <2> QED BY ONLY <1>3, <1>8, <2>1, <2>2 DEF Same, SameFile
<1>10. World' = w2 /\ disk' = w2.disk
  <2>1. Same(World', w2)
    BY <1>7, <1>8, <1>9, BecomesIs
  <2> QED BY <1>7, <1>8, <2>1 DEF Same, Becomes
<1>11. /\ Fit(w2) /\ PlainStep(last, T) /\ Hides(w, w2) /\ ~Shown(w2, u)
  <2>1. PlainStep(step, T)
    BY <1>3 DEF PlainStep
  <2>2. w \in Worlds
    BY <1>1, <1>2
  <2>3. r.ok
    <3>1. r.ok <=> w.disk[step.url] # {}
      BY <1>2, <1>3, <2>2, TrashIs
    <3> QED BY <1>3, <1>4, <3>1
  <2>4. Fit(r.w) /\ PlainStep(r.step, T) /\ Hides(w, r.w) /\ (r.ok => ~Shown(r.w, step.url))
    BY <1>2, <1>3, <1>5, <2>1, <2>2, TrashHeld
  <2> QED BY <1>3, <1>8, <2>3, <2>4
<1>12. PICK j : j = Forget(docs, us)
  OBVIOUS
<1>13. Sound(j) /\ Fresh(w2, j, T)
  <2>1. \A x \in us : ~Shown(w2, x)
    BY <1>2, <1>11
  <2>2. Sound(j) /\ Follows(docs, j, w, w2)
    BY <1>5, <1>12, <2>1, ForgetKeeps
  <2> QED BY <1>5, <1>11, <2>2, HidesFresh
<1>14. PICK steps, mid, new, d, e, b, n :
         /\ steps = group.steps /\ mid = steps \o edits /\ new = mid \o <<last>>
         /\ d = w.disk /\ e = w2.disk /\ b = atBegin /\ n = Len(steps)
  OBVIOUS
<1>15. steps \in Seq(Steps) /\ OpenTrail(steps, d, T, b) /\ StaysGone(steps, d) /\ d \in Files /\ e \in Files
       /\ n \in Nat
  <2>1. steps \in Seq(Steps)
    BY <1>1, <1>14, GroupIs
  <2>2. d \in Files /\ e \in Files
    BY <1>1, <1>2, <1>9, <1>14 DEF Worlds, Files
  <2>3. n \in Nat
    BY <1>14, <2>1
  <2> QED BY <1>5, <1>14, <2>1, <2>2, <2>3
<1>16. edit \in Steps /\ edit.kind = "edit" /\ Leads(edit, d, d)
  <2>1. edit \in Steps
    BY <1>1, <1>2, DocsPart
  <2>2. edit = [kind |-> "edit", docs |-> [x \in Changed(docs, us) |-> docs[x]]]
    BY <1>2 DEF EditStep
  <2>3. Changed(docs, us) \subseteq DOMAIN docs
    BY DEF Changed
  <2>4. Over(edit.docs, d)
    BY <1>4, <1>14, <2>2, <2>3 DEF Over
  <2> QED BY <2>1, <2>2, <2>4 DEF Leads
<1>17. PlainStep(edit, T) /\ EditDocs(edit) \subseteq {u}
  <2>1. ASSUME NEW x \in Changed(docs, us) \ T PROVE docs[x].before = {}
    <3>1. x = u /\ u \in DOMAIN docs /\ docs[u].before # docs[u].after /\ u \in Urls \ T
      BY <1>2, <2>1 DEF Changed
    <3>2. w.page[u] # {} /\ Has(w, u) = docs[u].after
      BY <1>1, <1>2, <1>7, <3>1 DEF Kept, Text, Has
    <3>3. u \notin w.signal
      BY <1>4, <1>5 DEF StaysGone
    <3>4. docs[u].after # {}
      BY <1>5, <3>1 DEF Sound
    <3> QED BY <1>5, <3>1, <3>2, <3>3, <3>4 DEF Fresh, Shown
  <2>2. PlainStep(edit, T) /\ EditDocs(edit) = Changed(docs, us)
    BY <1>2, <1>5, <2>1, EditStepPlain
  <2> QED BY <1>2, <2>2 DEF Changed
<1>18. /\ mid \in Seq(Steps) /\ OpenTrail(mid, d, T, b)
       /\ MayEnd(mid, Len(mid), last) /\ FreedOf(mid) = FreedOf(steps)
  <2>0. DocsAt(steps, n) = {}
    BY <1>5, <1>14
  <2>1. CASE edits = << >>
    <3>1. mid = steps
      BY <1>14, <1>15, <2>1
    <3>2. MayEnd(steps, n, last)
      BY <1>14, <2>0, EmptyFlushed
    <3> QED BY <1>14, <1>15, <3>1, <3>2
  <2>2. CASE edits = <<edit>>
    <3>1. Added(steps, edit, mid)
      BY <1>14, <2>2 DEF Added
    <3>2. MayEnd(steps, n, edit)
      BY <1>14, <2>0, EmptyFlushed
    <3>3. FreedOf(mid) = FreedOf(steps)
      BY <1>15, <1>16, <3>1, FreedMore DEF Added
    <3>4. StaysGone(mid, d)
      BY <1>15, <3>3 DEF StaysGone
    <3>5. steps \in Seq(Steps) /\ OpenTrail(steps, d, T, b) /\ n = Len(steps) /\ edit \in Steps
          /\ d \in Files /\ Leads(edit, d, d) /\ PlainStep(edit, T)
      BY <1>14, <1>15, <1>16, <1>17
    <3>6. mid \in Seq(Steps) /\ Len(mid) = n + 1 /\ mid[n + 1] = edit /\ OpenTrail(mid, d, T, b)
      BY ONLY <3>1, <3>2, <3>4, <3>5, OpenMore
    <3>7. MayEnd(mid, Len(mid), last)
      <4>1. Flushed(edit, last)
        BY <1>9, <1>17 DEF Flushed
      <4> QED BY <3>6, <4>1 DEF MayEnd
    <3> QED BY <3>3, <3>6, <3>7
  <2> QED BY <1>2, <2>1, <2>2
<1>19. group'.steps = new /\ group'.applied
  <2>1. group'.steps = steps \o (edits \o <<last>>) /\ group'.applied = group.applied
    <3>1. PICK more : more = edits \o <<last>>
      OBVIOUS
    <3>2. group' = [group EXCEPT !.steps = @ \o more]
      BY <1>7, <1>8, <3>1 DEF Push
    <3>3. group'.steps = group.steps \o more /\ group'.applied = group.applied
      BY <1>1, <3>2, PushIs
    <3> QED BY <1>14, <3>1, <3>3
  <2>2. edits \in Seq(Steps)
    BY <1>2, <1>16
  <2>3. steps \o (edits \o <<last>>) = (steps \o edits) \o <<last>>
    <3>1. PICK one : one = <<last>>
      OBVIOUS
    <3>2. one \in Seq(Steps)
      BY <1>9, <3>1
    <3> QED BY <1>15, <2>2, <3>1, <3>2, ConcatAssociative
  <2> QED BY <1>5, <1>14, <2>1, <2>3
<1>20. StaysGone(new, e)
  <2>1. SavedAt(World, group, transaction, stage)'
    BY DEF SavedHere
  <2> QED BY <1>4, <1>10, <1>14, <1>19, <2>1 DEF SavedAt, StaysGone
<1>21. OpenTrail(new, e, T, b) /\ DocsAt(new, Len(new)) = {}
  <2>1. Leads(last, d, e)
    BY <1>4, <1>9, <1>14 DEF Leads
  <2>2. PICK m : m = Len(mid)
    OBVIOUS
  <2>3. Added(mid, last, new) /\ MayEnd(mid, m, last) /\ m \in Nat
    BY <1>14, <1>18, <2>2 DEF Added
  <2>4. new \in Seq(Steps) /\ Len(new) = m + 1 /\ new[m + 1] = last /\ OpenTrail(new, e, T, b)
    <3>1. mid \in Seq(Steps) /\ OpenTrail(mid, d, T, b) /\ m = Len(mid) /\ last \in Steps
          /\ e \in Files /\ Leads(last, d, e) /\ PlainStep(last, T)
      BY <1>9, <1>11, <1>15, <1>18, <2>1, <2>2
    <3>2. Added(mid, last, new) /\ MayEnd(mid, m, last)
      BY <2>3
    <3> QED BY ONLY <1>20, <3>1, <3>2, OpenMore
  <2>5. EditDocs(last) = {}
    BY <1>9 DEF EditDocs
  <2> QED BY <2>3, <2>4, <2>5, LastIs
<1>22. /\ Fit(w2) /\ Sound(j) /\ Fresh(w2, j, touched) /\ OpenTrail(new, e, touched, atBegin)
       /\ w2 = World' /\ e = disk' /\ new = group'.steps /\ j = transaction'
  BY <1>2, <1>7, <1>10, <1>11, <1>12, <1>13, <1>14, <1>19, <1>21
<1> QED BY <1>4, <1>19, <1>21, <1>22, StillOpen

(* When edits are made again every document has the text from before or    *)
(* after them.                                                             *)
AllAt(w, docs) == \/ \A u \in DOMAIN docs : Has(w, u) = docs[u].after
                  \/ \A u \in DOMAIN docs : Has(w, u) = docs[u].before

LEMMA RedoAt ==
  ASSUME NEW w, NEW step, NEW r, r = Redo(w, step), r.ok, NEW o, o = Opened(w, DOMAIN step.docs)
  PROVE  AllAt(o, step.docs)
<1>1. PICK docs : docs = step.docs
  OBVIOUS
<1>2. CASE At(o, docs, "after")
  BY <1>1, <1>2 DEF At, AllAt, Has
<1>3. CASE At(o, docs, "before")
  BY <1>1, <1>3 DEF At, AllAt, Has
<1>4. CASE ~At(o, docs, "after") /\ ~At(o, docs, "before")
  <2>1. r = Fails(o, step)
    BY <1>1, <1>4 DEF Redo
  <2> QED BY <2>1 DEF Fails
<1> QED BY <1>2, <1>3, <1>4

(* Edits that are made again leave the pages of their documents open.      *)
OnDisk(w, step) == \A u \in DOMAIN step.docs : w.disk[u] # {}
EditLeaves(w, step, redo, w2) ==
  /\ \A u \in DOMAIN step.docs : w2.page[u] # {} /\ Has(w2, u) = To(step.docs[u], redo)
  /\ \A u \in Urls \ DOMAIN step.docs : Shown(w2, u) => Shown(w, u) \/ Has(w2, u) = {}
  /\ \A u \in Urls \ DOMAIN step.docs : Shown(w, u) => Has(w2, u) = Has(w, u)

LEMMA EditAgain ==
  ASSUME NEW w \in Worlds, NEW step \in Steps, step.kind = "edit", NEW redo \in BOOLEAN, NEW T,
         Fit(w), PlainStep(step, T), OnDisk(w, step), NEW r, r = Do(w, step, redo), r.ok
  PROVE  /\ Fit(r.w) /\ r.w \in Worlds /\ r.w.disk = w.disk /\ r.w.signal = w.signal
         /\ EditLeaves(w, step, redo, r.w)
<1>1. \A u \in DOMAIN step.docs : w.disk[u] # {}
  BY DEF OnDisk
<1>2. Fit(r.w)
  BY <1>1, EditHeld
<1>3. \A u \in DOMAIN step.docs : r.w.page[u] # {} /\ Has(r.w, u) = To(step.docs[u], redo)
  BY <1>1, EditHeld
<1>4. \A u \in Urls \ DOMAIN step.docs : Shown(r.w, u) => Shown(w, u) \/ Has(r.w, u) = {}
  BY <1>1, EditHeld
<1>5. \A u \in Urls \ DOMAIN step.docs : Shown(w, u) => Has(r.w, u) = Has(w, u)
  BY <1>1, EditHeld
<1>6. PICK docs, o : docs = step.docs /\ o = Opened(w, DOMAIN docs)
  OBVIOUS
<1>7. r.w \in Worlds /\ Same(r.w.disk, w.disk) /\ Same(r.w.signal, w.signal)
  <2>1. /\ w \in Worlds /\ step \in Steps /\ step.kind = "edit" /\ redo \in BOOLEAN /\ r = Do(w, step, redo)
        /\ docs = step.docs /\ o = Opened(w, DOMAIN docs)
    BY <1>6
  <2> QED BY ONLY <2>1, EditIs
<1>8. r.w.disk = w.disk /\ r.w.signal = w.signal
  BY <1>7 DEF Same
<1> QED BY <1>2, <1>3, <1>4, <1>5, <1>7, <1>8 DEF EditLeaves

(* The documents of the last edits had none that are shown before.         *)
NoneWaits(w) == \A u \in w.signal : w.disk[u] = {}
PlainBefore(docs, all, T) == \A u \in Changed(docs, all) \ T : docs[u].before = {}

LEMMA LastPlain ==
  ASSUME NEW w \in Worlds, Fit(w), NEW docs \in Docs, Sound(docs), NEW T, Fresh(w, docs, T),
         Over(docs, w.disk), NoneWaits(w),
         NEW all, NEW step, step = EditStep(docs, all), NEW r, r = Redo(w, step), r.ok
  PROVE  PlainBefore(docs, all, T)
<1>1. /\ DOMAIN step.docs = Changed(docs, all) /\ \A u \in Changed(docs, all) : step.docs[u] = docs[u]
  BY DEF EditStep
<1>2. \A u \in Changed(docs, all) : u \in DOMAIN docs /\ u \in Urls /\ docs[u].before # docs[u].after
  BY DocsAre DEF Changed
<1>3. PICK us, o : us = DOMAIN step.docs /\ o = Opened(w, us)
  OBVIOUS
<1>4. AllAt(o, step.docs)
  BY <1>3, RedoAt
<1>5. Fit(o) /\ Opens(w, o)
  <2>1. \A u \in us \cap Urls : w.disk[u] # {}
    BY <1>1, <1>2, <1>3 DEF Over
  <2> QED BY <1>3, <2>1, OpenedFit
<1>6. ASSUME NEW u \in Changed(docs, all) \ T PROVE docs[u].before = {}
  <2>1. u \in us /\ u \in Urls /\ u \in DOMAIN docs /\ docs[u].before # docs[u].after
        /\ docs[u].before \subseteq docs[u].after /\ w.disk[u] # {}
    BY <1>1, <1>2, <1>3 DEF Sound, Over
  <2>2. o.page[u] # {}
    BY <1>3, <2>1, OpenedIs
  <2>3. Has(o, u) = docs[u].after \/ Has(o, u) = docs[u].before
    BY <1>1, <1>4 DEF AllAt
  <2>4. CASE Has(o, u) = {}
    BY <2>1, <2>3, <2>4
  <2>5. CASE Has(o, u) # {}
    <3>1. w.page[u] # {} /\ o.page[u] = w.page[u]
      BY <1>5, <2>1, <2>2, <2>5 DEF Opens
    <3>2. Shown(w, u) /\ Has(w, u) # {}
      BY <2>1, <2>5, <3>1 DEF Shown, Has, NoneWaits
    <3> QED BY <2>1, <3>2 DEF Fresh
  <2> QED BY <2>4, <2>5
<1> QED BY <1>6 DEF PlainBefore

(* What the end of the turn leaves: the contents are those of the files or *)
(* the last edits.                                                         *)
LEMMA EndHeld ==
  ASSUME TypeOK, HeldHere, SavedHere, stage = "open", stage' \in {"committed", "over"}, UNCHANGED <<touched, atBegin>>,
         atCommit' = [u \in Urls |-> Content(u)'], TypeOK', disk' = disk, DOMAIN transaction' = {},
         group'.applied, NEW steps \in Seq(Steps), steps = group'.steps, OpenTrail(steps, disk, touched, atBegin),
         Fit(World'), Final(World', steps, touched)
  PROVE  HeldHere'
<1>1. World'.disk = disk' /\ World'.page = page' /\ World'.signal = signal'
  BY DEF World
<1>2. PICK n, X, T : n = Len(steps) /\ X = DocsAt(steps, n) /\ T = touched
  OBVIOUS
<1>3. Bare(World', T, X) /\ \A u \in X \ T : Shown(World', u) /\ Has(World', u) = steps[n].docs[u].after
  BY <1>2 DEF Final
<1>4. ASSUME NEW u \in Urls \ (T \cup X) PROVE Content(u)' = disk[u]
  <2>1. Content(u)' = disk'[u]
    <3>1. CASE page'[u] # {} /\ u \notin signal'
      <4>1. Text(u)' = {}
        BY <1>1, <1>3, <3>1 DEF Bare, Shown, Has, Text
      <4>2. disk'[u] \subseteq {{}} /\ disk'[u] # {}
        BY <1>1, <3>1 DEF Fit, FitAt
      <4>3. disk'[u] = {{}}
        BY <4>2
      <4> QED BY <3>1, <4>1, <4>3 DEF Content
    <3>2. CASE ~(page'[u] # {} /\ u \notin signal')
      BY <3>2 DEF Content
    <3> QED BY <3>1, <3>2
  <2> QED BY <2>1
<1>5. ASSUME NEW u \in X \ T PROVE Content(u)' = {steps[n].docs[u].after}
  <2>1. page'[u] # {} /\ u \notin signal' /\ Text(u)' = steps[n].docs[u].after
    BY <1>1, <1>3 DEF Shown, Has, Text
  <2> QED BY <2>1 DEF Content
<1>6. PICK P : Path(steps, P) /\ Shape(steps, P, T) /\ disk = P[n] /\ Begins(P, T, atBegin)
  BY <1>2 DEF OpenTrail
<1>7. Ends(steps, P, T, atCommit')
  <2>1. ASSUME NEW u \in Urls \ T
        PROVE  atCommit'[u] = IF u \in X THEN {steps[n].docs[u].after} ELSE P[n][u]
    <3>1. CASE u \in X
      BY <1>5, <3>1
    <3>2. CASE u \notin X
      BY <1>4, <1>6, <3>2
    <3> QED BY <3>1, <3>2
  <2> QED BY <1>2, <2>1 DEF Ends
<1>8. TrailOn(P, disk, steps, group'.applied, stage', T, atBegin, atCommit')
  BY <1>2, <1>6, <1>7 DEF TrailOn
<1>9. Trail(disk, steps, group'.applied, stage', T, atBegin, atCommit')
  BY <1>8 DEF Trail
<1>10. Sound(transaction')
  BY DEF Sound
<1>11. Pages(World', steps, group'.applied, transaction', stage', T)
  BY <1>2, <1>10 DEF Pages
<1> QED BY <1>2, <1>9, <1>11 DEF HeldHere

LEMMA CommitHolds ==
  ASSUME TypeOK, TypeOK', HeldHere, SavedHere, ~group'.error, Commit
  PROVE  HeldHere'
<1>1. World \in Worlds /\ transaction \in Docs /\ group \in Groups
      /\ World.disk = disk /\ World.page = page /\ World.signal = signal
  BY TypesAre, WorldsTypes
<1>0. PICK redo \in BOOLEAN : redo = TRUE
  OBVIOUS
<1>2. PICK w, all, step, r, docs, T :
        /\ w = World /\ all = Urls /\ step = EditStep(docs, all) /\ redo /\ docs = transaction /\ T = touched
        /\ r = IF DOMAIN step.docs = {} THEN Works(w, step) ELSE Redo(w, step)
  BY <1>0
<1>3. /\ Becomes(r.w) /\ transaction' = << >> /\ stage' \in {"over", "committed"} /\ stage = "open"
      /\ UNCHANGED <<touched, atBegin>> /\ atCommit' = [u \in Urls |-> Content(u)']
      /\ \/ DOMAIN step.docs = {} /\ UNCHANGED group
         \/ DOMAIN step.docs # {} /\ r.ok /\ Push(<<step>>)
         \/ Invalid
  BY <1>2 DEF Commit
<1>4. ~Invalid
  BY <1>1, ErrorStays
<1>5. /\ OpenTrail(group.steps, w.disk, T, atBegin) /\ group.applied
      /\ Fit(w) /\ Sound(docs) /\ Fresh(w, docs, T)
      /\ DocsAt(group.steps, Len(group.steps)) = {}
      /\ w.signal \subseteq FreedOf(group.steps) /\ StaysGone(group.steps, w.disk)
  BY <1>1, <1>2, <1>3, OpenIs DEF StaysGone
<1>6. step \in Steps /\ step.kind = "edit" /\ DOMAIN step.docs = Changed(docs, all) /\ Over(docs, w.disk)
      /\ \A u \in Changed(docs, all) : step.docs[u] = docs[u]
  <2>1. step \in Steps
    BY <1>1, <1>2, DocsPart
  <2>2. Over(docs, w.disk)
    BY <1>2, <1>3 DEF SavedHere, SavedAt
  <2> QED BY <1>2, <2>1, <2>2 DEF EditStep
<1>7. PICK steps, n, d, b : steps = group.steps /\ n = Len(steps) /\ d = w.disk /\ b = atBegin
  OBVIOUS
<1>8. steps \in Seq(Steps) /\ d \in Files /\ n \in Nat /\ OpenTrail(steps, d, T, b) /\ DocsAt(steps, n) = {}
  <2>1. steps \in Seq(Steps)
    BY <1>1, <1>7, GroupIs
  <2>2. d \in Files
    BY <1>1, <1>2, <1>7 DEF Worlds, Files
  <2>3. n \in Nat
    BY <1>7, <2>1
  <2> QED BY <1>5, <1>7, <2>1, <2>2, <2>3
<1>9. DOMAIN transaction' = {}
  BY <1>3
(* Every edit that is shown is of the last step. *)
<1>10. ASSUME NEW u \in Urls \ T, Shown(w, u), Has(w, u) # {} PROVE u \in Changed(docs, all)
  <2>1. u \in DOMAIN docs /\ docs[u].before = {} /\ Has(w, u) = docs[u].after
    BY <1>5, <1>10 DEF Fresh
  <2> QED BY <1>2, <1>10, <2>1 DEF Changed
<1>11. CASE DOMAIN step.docs = {} /\ UNCHANGED group
  <2>1. r.w = w
    BY <1>2, <1>11 DEF Works
  <2>2. World' = w /\ disk' = disk
    <3>1. Same(World', w)
      BY <1>1, <1>2, <1>3, <2>1, BecomesIs
    <3> QED BY <1>1, <1>2, <1>3, <2>1, <3>1 DEF Same, Becomes
  <2>3. Final(w, steps, T)
    <3>1. Bare(w, T, {})
      BY <1>6, <1>10, <1>11 DEF Bare
    <3> QED BY <1>7, <1>8, <3>1 DEF Final
  <2>4. PICK w2 : w2 = World'
    OBVIOUS
  <2>5. /\ group'.applied /\ steps = group'.steps /\ OpenTrail(steps, disk, touched, atBegin)
        /\ Fit(w2) /\ Final(w2, steps, touched)
    BY <1>1, <1>2, <1>5, <1>7, <1>8, <1>11, <2>2, <2>3, <2>4
  <2> QED BY <1>3, <1>8, <1>9, <2>2, <2>4, <2>5, EndHeld
<1>12. CASE DOMAIN step.docs # {} /\ r.ok /\ Push(<<step>>)
  <2>1. r = Redo(w, step) /\ r = Do(w, step, redo) /\ w \in Worlds
    BY <1>1, <1>2, <1>6, <1>12 DEF Do
  <2>2. PlainBefore(docs, all, T)
    <3>1. NoneWaits(w)
      BY <1>5 DEF StaysGone, NoneWaits
    <3>2. /\ w \in Worlds /\ Fit(w) /\ docs \in Docs /\ Sound(docs) /\ Fresh(w, docs, T)
          /\ Over(docs, w.disk) /\ step = EditStep(docs, all) /\ r = Redo(w, step) /\ r.ok
      BY <1>1, <1>2, <1>5, <1>6, <1>12, <2>1
    <3> QED BY ONLY <3>1, <3>2, LastPlain
  <2>3. PlainStep(step, T) /\ EditDocs(step) = Changed(docs, all)
    BY <1>2, <1>5, <2>2, EditStepPlain DEF PlainBefore
  <2>4. \A u \in DOMAIN step.docs : w.disk[u] # {}
    BY <1>6 DEF Over, Changed
  <2>5. Fit(r.w) /\ r.w \in Worlds /\ r.w.disk = w.disk /\ r.w.signal = w.signal /\ EditLeaves(w, step, redo, r.w)
    <3>1. /\ w \in Worlds /\ step \in Steps /\ step.kind = "edit" /\ Fit(w) /\ PlainStep(step, T)
          /\ OnDisk(w, step) /\ r = Do(w, step, redo) /\ r.ok /\ redo \in BOOLEAN
      BY <1>5, <1>6, <1>12, <2>1, <2>3, <2>4 DEF OnDisk
    <3> QED BY ONLY <3>1, EditAgain
  <2>6. /\ \A u \in DOMAIN step.docs : r.w.page[u] # {} /\ Has(r.w, u) = step.docs[u].after
        /\ \A u \in Urls \ DOMAIN step.docs : Shown(r.w, u) => Shown(w, u) \/ Has(r.w, u) = {}
        /\ \A u \in Urls \ DOMAIN step.docs : Shown(w, u) => Has(r.w, u) = Has(w, u)
    BY <1>2, <2>5 DEF EditLeaves, To
  <2>7. World' = r.w /\ disk' = disk
    <3>1. Same(World', r.w)
      BY <1>3, <2>5, BecomesIs
    <3> QED BY <1>1, <1>2, <1>3, <2>5, <3>1 DEF Same, Becomes
  <2>8. PICK new, w2 : new = steps \o <<step>> /\ w2 = World'
    OBVIOUS
  <2>9. new \in Seq(Steps) /\ Len(new) = n + 1 /\ new[n + 1] = step /\ OpenTrail(new, d, T, b)
    <3>1. Leads(step, d, d)
      <4>1. Over(step.docs, d)
        BY <1>6, <1>7 DEF Over, Changed
      <4> QED BY <1>6, <4>1 DEF Leads
    <3>2. MayEnd(steps, n, step)
      BY <1>7, <1>8, EmptyFlushed
    <3>3. StaysGone(new, d)
      <4>1. FreedOf(new) = FreedOf(steps)
        BY <1>6, <1>8, <2>8, FreedMore
      <4> QED BY <1>5, <1>7, <4>1 DEF StaysGone
    <3>4. /\ steps \in Seq(Steps) /\ OpenTrail(steps, d, T, b) /\ n = Len(steps) /\ step \in Steps
          /\ d \in Files /\ PlainStep(step, T)
      BY <1>6, <1>7, <1>8, <2>3
    <3>5. Added(steps, step, new)
      BY <2>8 DEF Added
    <3> QED BY ONLY <3>1, <3>2, <3>3, <3>4, <3>5, OpenMore
  <2>10. group'.steps = new /\ group'.applied
    <3>1. group'.steps = group.steps \o <<step>> /\ group'.applied = group.applied
      BY <1>1, <1>12, PushIs DEF Push
    <3> QED BY <1>5, <1>7, <2>8, <3>1
  <2>11. DocsAt(new, Len(new)) = Changed(docs, all) /\ new[Len(new)] = step
    <3>1. DocsAt(new, Len(new)) = EditDocs(step)
      BY <1>8, <2>9, LastIs
    <3> QED BY <2>3, <2>9, <3>1
  <2>12. Final(w2, new, T)
    <3>1. ASSUME NEW u \in Urls \ (T \cup Changed(docs, all)), Shown(r.w, u) PROVE Has(r.w, u) = {}
      BY <1>6, <1>10, <2>6, <3>1
    <3>2. ASSUME NEW u \in Changed(docs, all) \ T PROVE Shown(r.w, u) /\ Has(r.w, u) = step.docs[u].after
      <4>1. r.w.page[u] # {} /\ Has(r.w, u) = step.docs[u].after /\ w.disk[u] # {}
        BY <1>6, <2>4, <2>6
      <4>2. u \notin r.w.signal
        BY <1>5, <2>5, <4>1 DEF StaysGone
      <4> QED BY <4>1, <4>2 DEF Shown
    <3> QED BY <2>7, <2>8, <2>11, <3>1, <3>2 DEF Final, Bare
  <2>13. /\ OpenTrail(new, disk, touched, atBegin) /\ Fit(w2) /\ Final(w2, new, touched) /\ new = group'.steps
    BY <1>1, <1>2, <1>7, <2>5, <2>7, <2>8, <2>9, <2>10, <2>12
  <2> QED BY <1>3, <1>9, <2>7, <2>8, <2>9, <2>10, <2>13, EndHeld
<1> QED BY <1>3, <1>4, <1>11, <1>12

(* A walk changes of the steps no more than what is in the trash. *)
LEMMA AlikeLast ==
  ASSUME NEW n \in Nat, NEW old, Len(old) = n, NEW new, NEW T, Alike(new, old, T)
  PROVE  /\ DocsAt(new, n) = DocsAt(old, n)
         /\ \A u \in DocsAt(old, n) : new[n].docs[u] = old[n].docs[u]
<1>1. CASE n = 0
  BY <1>1 DEF DocsAt
<1>2. CASE n # 0
  <2>1. n \in 1 .. Len(old)
    BY <1>2
  <2>2. PICK s, t : s = new[n] /\ t = old[n]
    OBVIOUS
  <2>3. SameStep(s, t)
    BY <2>1, <2>2 DEF Alike
  <2>4. EditDocs(s) = EditDocs(t) /\ (EditDocs(t) # {} => s = t)
    BY <2>3 DEF SameStep, EditDocs
  <2> QED BY <1>2, <2>2, <2>4 DEF DocsAt
<1> QED BY <1>1, <1>2

LEMMA SameFlushed ==
  ASSUME NEW s, NEW t, SameStep(s, t), NEW s2, NEW t2, SameStep(s2, t2), Flushed(t, t2)
  PROVE  Flushed(s, s2) /\ Takes(s) = Takes(t)
<1>1. EditDocs(s) = EditDocs(t) /\ Takes(s) = Takes(t)
  BY DEF SameStep, EditDocs, Takes
<1>2. s2.kind = t2.kind /\ (t2.kind = "delete" => s2.url = t2.url)
  BY DEF SameStep
<1> QED BY <1>1, <1>2 DEF Flushed

LEMMA AlikeShape ==
  ASSUME NEW n \in Nat, NEW old, Len(old) = n, NEW new, NEW T, Alike(new, old, T), NEW P, Shape(old, P, T)
  PROVE  Shape(new, P, T)
<1>1. Len(new) = n
  BY DEF Alike
<1>2. ASSUME NEW i \in 1 .. n
      PROVE  PlainStep(new[i], T) /\ GoneFrom(new[i], P, i, n) /\ (i < n => Flushed(new[i], new[i + 1]))
  <2>1. SameStep(new[i], old[i]) /\ PlainStep(new[i], T)
    BY DEF Alike
  <2>2. GoneFrom(old[i], P, i, n) /\ (i < n => Flushed(old[i], old[i + 1]))
    BY DEF Shape
  <2>3. Takes(new[i]) = Takes(old[i])
    BY <2>1 DEF SameStep, Takes
  <2>4. GoneFrom(new[i], P, i, n)
    BY <2>2, <2>3 DEF GoneFrom
  <2>5. ASSUME i < n PROVE Flushed(new[i], new[i + 1])
    <3>1. i + 1 \in 1 .. n
      BY <2>5
    <3>2. PICK j \in 1 .. n : j = i + 1
      BY <3>1
    <3>3. SameStep(new[j], old[j]) /\ Flushed(old[i], old[j])
      BY <2>2, <2>5, <3>2 DEF Alike
    <3>4. Flushed(new[i], new[j])
      BY <2>1, <3>3, SameFlushed
    <3> QED BY <3>2, <3>4
  <2> QED BY <2>1, <2>4, <2>5
<1> QED BY <1>1, <1>2 DEF Shape

LEMMA AlikeEnds ==
  ASSUME NEW n \in Nat, NEW old, Len(old) = n, NEW new, NEW T, Alike(new, old, T),
         NEW P, NEW c, Ends(old, P, T, c)
  PROVE  Ends(new, P, T, c)
<1>1. Len(new) = n
  BY DEF Alike
<1>2. DocsAt(new, n) = DocsAt(old, n)
  BY AlikeLast
<1>3. \A u \in DocsAt(old, n) : new[n].docs[u] = old[n].docs[u]
  BY AlikeLast
<1> QED BY <1>1, <1>2, <1>3 DEF Ends

LEMMA AlikeFinal ==
  ASSUME NEW n \in Nat, NEW old, Len(old) = n, NEW new, NEW T, Alike(new, old, T), NEW w, Final(w, old, T)
  PROVE  Final(w, new, T)
<1>1. Len(new) = n
  BY DEF Alike
<1>2. DocsAt(new, n) = DocsAt(old, n)
  BY AlikeLast
<1>3. \A u \in DocsAt(old, n) : new[n].docs[u] = old[n].docs[u]
  BY AlikeLast
<1> QED BY <1>1, <1>2, <1>3 DEF Final

(* When the turn is redone its last edits are shown. *)
LEMMA RedoneFinal ==
  ASSUME NEW n \in Nat, NEW steps, Len(steps) = n, NEW P, Path(steps, P), NEW T, NEW w,
         Bare(w, T, DocsAt(steps, n)), n > 0 => Shows(steps[n], w), Away(w, P, n, n)
  PROVE  Final(w, steps, T)
<1>1. ASSUME NEW u \in DocsAt(steps, n) PROVE Shown(w, u) /\ Has(w, u) = steps[n].docs[u].after
  <2>1. n > 0 /\ n \in 1 .. Len(steps) /\ u \in EditDocs(steps[n])
    BY DEF DocsAt
  <2>2. PICK step, d, e : step = steps[n] /\ d = P[n - 1] /\ e = P[n]
    OBVIOUS
  <2>3. step.kind = "edit" /\ u \in DOMAIN step.docs /\ Shows(step, w) /\ Leads(step, d, e)
    BY <2>1, <2>2 DEF EditDocs, Path
  <2>4. w.page[u] # {} /\ Has(w, u) = step.docs[u].after
    BY <2>3 DEF Shows
  <2>5. e[u] # {}
    <3>1. d[u] # {} /\ e = d
      BY <2>3, LeadsOver
    <3> QED BY <3>1
  <2>6. u \notin w.signal
    <3>1. n \in n .. n
      OBVIOUS
    <3> QED BY <2>2, <2>5, <3>1 DEF Away
  <2> QED BY <2>2, <2>4, <2>6 DEF Shown
<1> QED BY <1>1 DEF Final

(* The path of a walked turn is the one of its steps before. *)
LEMMA TrailWalked ==
  ASSUME NEW n \in Nat, NEW old, Len(old) = n, NEW P, NEW T, Shape(old, P, T), NEW b, Begins(P, T, b),
         NEW c, Ends(old, P, T, c), NEW redo, NEW ran, HeldRun(n, P, redo, old, T, ran),
         NEW applied, ran.w.disk = P[IF applied THEN n ELSE 0], NEW st
  PROVE  Trail(ran.w.disk, ran.steps, applied, st, T, b, c)
<1>1. PICK new, d : new = ran.steps /\ d = ran.w.disk
  OBVIOUS
<1>2. Alike(new, old, T) /\ Len(new) = n /\ Path(new, P)
  BY <1>1 DEF HeldRun, Walks
<1>3. Shape(new, P, T)
  BY <1>2, AlikeShape
<1>4. Ends(new, P, T, c)
  BY <1>2, AlikeEnds
<1>5. d = P[IF applied THEN Len(new) ELSE 0]
  BY <1>1, <1>2
<1>6. TrailOn(P, d, new, applied, st, T, b, c)
  BY <1>2, <1>3, <1>4, <1>5 DEF TrailOn
<1> QED BY <1>1, <1>6 DEF Trail

(* What a walked turn leaves: st is the stage after it. *)
WalkShows(n, P, w, steps, applied, st, T) ==
  /\ w.disk = P[IF applied THEN n ELSE 0]
  /\ st \in {"committed", "over"} /\ applied => Final(w, steps, T)
  /\ ~applied => Bare(w, T, {})

LEMMA RedoShows ==
  ASSUME NEW n \in Nat, NEW steps, Len(steps) = n, NEW P, Path(steps, P), NEW T, NEW ran,
         Redone(n, P, steps, T, ran), ran.ok \/ ~ran.torn, ran.ok \in BOOLEAN, NEW st
  PROVE  WalkShows(n, P, ran.w, ran.steps, ran.ok, st, T)
<1>1. PICK w, new : w = ran.w /\ new = ran.steps
  OBVIOUS
<1>2. Alike(new, steps, T)
  BY <1>1 DEF Redone, HeldRun
<1>3. CASE ran.ok
  <2>1. /\ Bare(w, T, DocsAt(steps, n)) /\ (n > 0 => Shows(steps[n], w)) /\ Away(w, P, n, n)
        /\ ran.w.disk = P[n]
    BY <1>1, <1>3 DEF Redone
  <2>2. Final(w, steps, T)
    BY <2>1, RedoneFinal
  <2>3. Final(w, new, T)
    BY <1>2, <2>2, AlikeFinal
  <2> QED BY <1>1, <1>3, <2>1, <2>3 DEF WalkShows
<1>4. CASE ~ran.ok
  <2>1. ran.w.disk = P[0] /\ Bare(w, T, {})
    BY <1>1, <1>4 DEF Redone
  <2> QED BY <1>1, <1>4, <2>1 DEF WalkShows
<1> QED BY <1>3, <1>4

LEMMA UndoShows ==
  ASSUME NEW n \in Nat, NEW steps \in Seq(Steps), Len(steps) = n, NEW P, NEW T, NEW w, Final(w, steps, T),
         NEW ran, Undone(n, P, steps, T, w, ran), ran.ok \in BOOLEAN,
         NEW st, ~ran.ok /\ ran.done # 0 => st = "compensated", NEW applied, applied = ~ran.ok
  PROVE  WalkShows(n, P, ran.w, ran.steps, applied, st, T)
<1>1. PICK x, new : x = ran.w /\ new = ran.steps
  OBVIOUS
<1>2. Alike(new, steps, T)
  BY <1>1 DEF Undone, HeldRun
<1>3. CASE ran.ok
  BY <1>1, <1>3 DEF WalkShows, Undone
<1>4. CASE ~ran.ok /\ ran.done = 0
  <2>1. ran.w.disk = P[n] /\ Opens(w, x)
    BY <1>1, <1>4 DEF Undone
  <2>2. DocsAt(steps, Len(steps)) \subseteq Urls
    <3>1. PICK m \in 0 .. Len(steps) : m = Len(steps)
      OBVIOUS
    <3>2. DocsAt(steps, m) \subseteq Urls
      BY DocsAtUrls
    <3> QED BY <3>1, <3>2
  <2>3. Final(x, steps, T)
    BY <2>1, <2>2, OpensFinal
  <2>4. Final(x, new, T)
    BY <1>2, <2>3, AlikeFinal
  <2> QED BY <1>1, <1>4, <2>1, <2>4 DEF WalkShows
<1>5. CASE ~ran.ok /\ ran.done # 0
  <2>1. ran.w.disk = P[n] /\ st \notin {"committed", "over"}
    BY <1>5 DEF Undone
  <2> QED BY <1>1, <1>5, <2>1 DEF WalkShows
<1> QED BY <1>3, <1>4, <1>5

LEMMA WalkHolds ==
  ASSUME TypeOK, HeldHere, SavedHere, NEW redo \in BOOLEAN, Walk(redo), signal = {},
         ~group.error, ~group'.error
  PROVE  HeldHere'
<1>1. World \in Worlds /\ group \in Groups /\ World.disk = disk /\ World.signal = signal
  BY TypesAre, WorldsTypes
<1>2. PICK w, steps, T, ran, n : /\ w = World /\ steps = group.steps /\ T = touched
                                 /\ ran = Ran(w, steps, redo) /\ n = Len(steps)
  OBVIOUS
<1>3. /\ Clean(w) /\ transaction = << >> /\ steps \in Seq(Steps) /\ n \in Nat /\ group.applied = ~redo
      /\ w \in Worlds /\ Fit(w) /\ stage = "committed"
  <2>1. Clean(w) /\ transaction = << >> /\ group.applied # redo /\ stage = "committed"
    BY <1>2 DEF SavedHere, SavedAt, Walk
  <2>2. steps \in Seq(Steps) /\ group.applied \in BOOLEAN
    BY <1>1, <1>2, GroupIs
  <2>3. Fit(w)
    BY <1>2 DEF HeldHere, Pages
  <2> QED BY <1>1, <1>2, <2>1, <2>2, <2>3
<1>4. /\ Becomes(ran.w) /\ group'.steps = ran.steps /\ UNCHANGED <<transaction, touched, atBegin, atCommit>>
      /\ stage' = IF ran.ok THEN stage ELSE IF ran.done = 0 THEN "over" ELSE "compensated"
      /\ group' = [steps |-> ran.steps, error |-> ~ran.ok /\ ran.torn,
                   applied |-> IF ran.ok THEN redo ELSE group.applied]
  BY <1>2 DEF Walk, ghosts
<1>5. PICK P : TrailOn(P, disk, steps, group.applied, stage, T, atBegin, atCommit)
  BY <1>2 DEF HeldHere, Trail
<1>6. /\ Path(steps, P) /\ Shape(steps, P, T) /\ disk = P[IF group.applied THEN n ELSE 0]
      /\ Begins(P, T, atBegin) /\ Ends(steps, P, T, atCommit)
  BY <1>2, <1>3, <1>5 DEF TrailOn
<1>7. PICK applied, st : applied = group'.applied /\ st = stage'
  OBVIOUS
<1>8. /\ HeldRun(n, P, redo, steps, T, ran) /\ WalkShows(n, P, ran.w, ran.steps, applied, st, T)
  <2>1. CASE redo
    <3>2. Bare(w, T, {}) /\ w.disk = P[0] /\ w.signal = {}
      BY <1>1, <1>2, <1>3, <1>6, <2>1 DEF HeldHere, Pages
    <3>3. ran = Ran(w, steps, TRUE)
      BY <1>2, <2>1
    <3>4. Redone(n, P, steps, T, ran)
      BY <1>2, <1>3, <1>6, <3>2, <3>3, RanRedone
    <3>5. HeldRun(n, P, redo, steps, T, ran) /\ ran.ok \in BOOLEAN
      BY <2>1, <3>4 DEF Redone, HeldRun, Walks, Runs
    <3>6. ran.ok \/ ~ran.torn
      BY <1>4
    <3>7. applied = ran.ok
      BY <1>3, <1>4, <1>7, <2>1, <3>5
    <3>8. Len(steps) = n
      BY <1>2
    <3>9. WalkShows(n, P, ran.w, ran.steps, ran.ok, st, T)
      BY <1>3, <1>6, <3>4, <3>5, <3>6, <3>8, RedoShows
    <3> QED BY <3>5, <3>7, <3>9
  <2>2. CASE ~redo
    <3>1. Final(w, steps, T) /\ w.disk = P[n]
      BY <1>1, <1>2, <1>3, <1>6, <2>2 DEF HeldHere, Pages
    <3>2. Bare(w, T, DocsAt(steps, n))
      BY <1>2, <3>1 DEF Final
    <3>3. ran = Ran(w, steps, FALSE)
      BY <1>2, <2>2
    <3>4. Undone(n, P, steps, T, w, ran)
      BY <1>2, <1>3, <1>6, <3>1, <3>2, <3>3, RanUndone
    <3>5. HeldRun(n, P, redo, steps, T, ran) /\ ran.ok \in BOOLEAN
      BY <2>2, <3>4 DEF Undone, HeldRun, Walks, Runs
    <3>6. ~ran.ok /\ ran.done # 0 => st = "compensated"
      BY <1>4, <1>7
    <3>7. applied = ~ran.ok
      BY <1>3, <1>4, <1>7, <2>2, <3>5
    <3>8. Len(steps) = n
      BY <1>2
    <3>9. WalkShows(n, P, ran.w, ran.steps, applied, st, T)
      <4>1. /\ n \in Nat /\ steps \in Seq(Steps) /\ Len(steps) = n /\ Final(w, steps, T)
            /\ Undone(n, P, steps, T, w, ran) /\ ran.ok \in BOOLEAN /\ applied = ~ran.ok
            /\ ~ran.ok /\ ran.done # 0 => st = "compensated"
        BY <1>3, <3>1, <3>4, <3>5, <3>6, <3>7, <3>8
      <4> QED BY ONLY <4>1, UndoShows
    <3> QED BY <3>5, <3>9
  <2> QED BY <2>1, <2>2
<1>9. ran.w \in Worlds /\ Fit(ran.w) /\ ran.ok \in BOOLEAN
  BY <1>8 DEF HeldRun, Walks, Runs
<1>10. World' = ran.w /\ disk' = ran.w.disk
  <2>1. Same(World', ran.w)
    BY <1>4, <1>9, BecomesIs
  <2> QED BY <1>4, <2>1 DEF Same, Becomes
<1>11. Trail(ran.w.disk, ran.steps, applied, st, T, atBegin, atCommit)
  <2>1. PICK b, c : b = atBegin /\ c = atCommit
    OBVIOUS
  <2>2. /\ n \in Nat /\ Len(steps) = n /\ Shape(steps, P, T) /\ Begins(P, T, b) /\ Ends(steps, P, T, c)
        /\ HeldRun(n, P, redo, steps, T, ran) /\ ran.w.disk = P[IF applied THEN n ELSE 0]
    BY <1>2, <1>3, <1>6, <1>8, <2>1 DEF WalkShows
  <2>3. Trail(ran.w.disk, ran.steps, applied, st, T, b, c)
    BY ONLY <2>2, TrailWalked
  <2> QED BY <2>1, <2>3
<1>12. st \notin {"before", "open"}
  BY <1>3, <1>4, <1>7
<1>13. Sound(transaction')
  <2>1. DOMAIN transaction' = {}
    BY <1>3, <1>4
  <2> QED BY <2>1 DEF Sound
<1>14. Pages(ran.w, ran.steps, applied, transaction', st, T)
  BY <1>8, <1>9, <1>12, <1>13 DEF Pages, WalkShows
<1> QED BY <1>2, <1>4, <1>7, <1>10, <1>11, <1>14 DEF HeldHere

(* Nobody saves or writes files, or walks the turn before the watcher has  *)
(* reported all, and no call was refused.                                  *)
Calm == Apart /\ used.early = 0 /\ ~group.error

LEMMA ErrorBack ==
  ASSUME group \in Groups, ~group'.error, UNCHANGED group \/ Invalid \/ \E steps : Push(steps)
  PROVE  ~group.error
<1>1. ~Invalid
  BY ErrorStays
<1>2. ASSUME NEW steps, Push(steps) PROVE ~group.error
  <2>1. group = [steps |-> group.steps, applied |-> group.applied, error |-> group.error]
    BY GroupIs
  <2>2. group' = [group EXCEPT !.steps = @ \o steps] /\ ~group'.error
    BY <1>2 DEF Push
  <2> QED BY ONLY <2>1, <2>2
<1> QED BY <1>1, <1>2

LEMMA CalmBack ==
  ASSUME TypeOK, [Next]_vars, Calm'
  PROVE  Calm /\ \A redo \in BOOLEAN : Walk(redo) => signal = {}
<1>1. /\ group \in Groups /\ used.early \in Nat /\ used'.early = 0 /\ ~group'.error
      /\ used \in Counts /\ Apart'
  BY TypesAre, CountsAre DEF Calm
<1>2. Apart /\ \A u \in Urls : ~Save(u) /\ ~OtherWrites(u)
  BY <1>1, ApartBack
<1>3. ASSUME UNCHANGED used PROVE used.early = 0
  BY <1>1, <1>3
<1>4. ASSUME NEW what \in {"tools", "typed"}, NEW bound, Use(what, bound) PROVE used.early = 0
  <2>1. used' = [used EXCEPT ![what] = @ + 1]
    BY <1>4 DEF Use
  <2>2. used'.early = used.early
    BY <1>1, <2>1 DEF Counts
  <2> QED BY <1>1, <2>2
<1>5. ASSUME NEW bound, Use("early", bound) PROVE FALSE
  <2>1. used' = [used EXCEPT !.early = @ + 1]
    BY <1>5 DEF Use
  <2>2. used'.early = used.early + 1
    BY <1>1, <2>1 DEF Counts
  <2> QED BY <1>1, <2>2
<1>6. ASSUME NEW tool, NEW u, CallTo(tool, u) PROVE used.early = 0
  <2>1. used' = [used EXCEPT !.tools = @ + 1, !.reused = IF u \in Freed THEN @ + 1 ELSE @]
    BY <1>6 DEF CallTo
  <2>2. used'.early = used.early
    BY <1>1, <2>1 DEF Counts
  <2> QED BY <1>1, <2>2
<1>7. ASSUME UNCHANGED group \/ Invalid \/ \E steps : Push(steps) PROVE ~group.error
  BY <1>1, <1>7, ErrorBack
<1>8. ASSUME Begin \/ Commit \/ UNCHANGED vars PROVE used.early = 0 /\ ~group.error
  <2>1. UNCHANGED used
    BY <1>8 DEF Begin, Commit, vars
  <2>2. UNCHANGED group \/ Invalid \/ \E steps : Push(steps)
    BY <1>8 DEF Begin, Commit, vars
  <2> QED BY <1>3, <1>7, <2>1, <2>2
<1>9. ASSUME NEW u \in Urls, Edit(u) \/ DeleteFile(u) PROVE used.early = 0 /\ ~group.error
  <2>1. used.early = 0
    BY <1>4, <1>9 DEF Edit, DeleteFile, Call
  <2>2. UNCHANGED group \/ Invalid \/ \E steps : Push(steps)
    BY <1>9 DEF Edit, DeleteFile
  <2> QED BY <1>7, <2>1, <2>2
<1>10. ASSUME NEW u \in Urls, NEW v \in Urls, CreateFile(u) \/ RenameFile(u, v)
       PROVE  used.early = 0 /\ ~group.error
  <2>1. used.early = 0
    BY <1>6, <1>10 DEF CreateFile, RenameFile
  <2>2. UNCHANGED group \/ Invalid \/ \E steps : Push(steps)
    BY <1>10 DEF CreateFile, RenameFile
  <2> QED BY <1>7, <2>1, <2>2
<1>11. ASSUME NEW redo \in BOOLEAN, Walk(redo) PROVE used.early = 0 /\ ~group.error /\ signal = {}
  <2>1. signal = {} /\ UNCHANGED used
    BY <1>5, <1>11 DEF Walk
  <2>2. ASSUME group.error PROVE FALSE
    BY <1>1, <1>11, <2>2 DEF Walk
  <2> QED BY <1>3, <2>1, <2>2
<1>12. ASSUME NEW u \in Urls, Open(u) \/ Type(u) \/ Close(u) \/ Report(u) \/ Destroyed(u)
       PROVE  used.early = 0 /\ ~group.error
  <2>1. UNCHANGED group
    BY <1>12 DEF Open, Type, Close, Report, Destroyed
  <2>2. used.early = 0
    BY <1>3, <1>4, <1>12 DEF Open, Type, Close, Report, Destroyed
  <2> QED BY <1>7, <2>1, <2>2
<1> QED BY <1>2, <1>8, <1>9, <1>10, <1>11, <1>12 DEF Next, Calm

LEMMA HeldStep ==
  TypeOK /\ TypeOK' /\ (Apart => SavedHere) /\ (Calm => HeldHere) /\ [Next]_vars => (Calm' => HeldHere')
<1> SUFFICES ASSUME TypeOK, TypeOK', Apart => SavedHere, Calm => HeldHere, [Next]_vars, Calm'
             PROVE  HeldHere'
  OBVIOUS
<1>1. Calm /\ HeldHere /\ \A redo \in BOOLEAN : Walk(redo) => signal = {}
  BY CalmBack
<1>2. Apart /\ Apart' /\ SavedHere /\ ~group.error /\ ~group'.error
  BY <1>1 DEF Calm
<1>3. SavedHere' /\ \A u \in Urls : ~Save(u) /\ ~OtherWrites(u)
  BY <1>2, SavedStep, ApartBack
<1>4. CASE Begin
  BY <1>1, <1>2, <1>4, BeginHolds
<1>5. CASE Commit
  BY <1>1, <1>2, <1>5, CommitHolds
<1>6. ASSUME NEW u \in Urls, Edit(u) PROVE HeldHere'
  BY <1>1, <1>2, <1>6, EditHolds
<1>7. ASSUME NEW u \in Urls, CreateFile(u) PROVE HeldHere'
  BY <1>1, <1>2, <1>3, <1>7, CreateHolds
<1>8. ASSUME NEW u \in Urls, DeleteFile(u) PROVE HeldHere'
  BY <1>1, <1>2, <1>3, <1>8, DeleteHolds
<1>9. ASSUME NEW u \in Urls, NEW v \in Urls, RenameFile(u, v) PROVE HeldHere'
  BY <1>1, <1>2, <1>3, <1>9, RenameHolds
<1>10. ASSUME NEW redo \in BOOLEAN, Walk(redo) PROVE HeldHere'
  BY <1>1, <1>2, <1>10, WalkHolds
<1>11. ASSUME NEW u \in Urls, Open(u) \/ Type(u) \/ Close(u) \/ Report(u) \/ Destroyed(u) PROVE HeldHere'
  BY <1>1, <1>11, UserHolds
<1>12. CASE UNCHANGED vars
  <2>1. UNCHANGED <<world, transaction, stage, ghosts, group>>
    BY <1>12 DEF vars
  <2> QED BY <1>1, <2>1, SameHeld
<1> QED BY <1>3, <1>4, <1>5, <1>6, <1>7, <1>8, <1>9, <1>10, <1>11, <1>12 DEF Next

LEMMA InitHeld == Init => HeldHere
<1> SUFFICES ASSUME Init PROVE HeldHere
  OBVIOUS
<1>1. /\ disk \in [Urls -> {{}, {{}}}] /\ page = [u \in Urls |-> {}] /\ signal = {}
      /\ stage = "before" /\ transaction = << >> /\ group = [steps |-> << >>, applied |-> TRUE, error |-> FALSE]
      /\ World.disk = disk /\ World.page = page
  BY DEF Init, World
<1>2. PICK P : P = [k \in 0 .. 0 |-> disk]
  OBVIOUS
<1>3. group.steps = << >> /\ Len(group.steps) = 0 /\ group.applied /\ 0 = 0
  BY <1>1
<1>4. Path(group.steps, P) /\ disk = P[0]
  <2>1. disk \in Files
    BY <1>1, EmptyText DEF Files, Maybe
  <2>2. P \in [0 .. 0 -> Files] /\ P[0] = disk
    BY <1>2, <2>1
  <2> QED BY <1>3, <2>2 DEF Path
<1>5. Trail(disk, group.steps, group.applied, stage, touched, atBegin, atCommit)
  <2>1. Shape(group.steps, P, touched)
    BY <1>3 DEF Shape
  <2>2. TrailOn(P, disk, group.steps, group.applied, stage, touched, atBegin, atCommit)
    BY <1>1, <1>3, <1>4, <2>1 DEF TrailOn
  <2> QED BY <2>2 DEF Trail
<1>6. \A u \in Urls : World.page[u] = {} /\ World.disk[u] \subseteq {{}}
  BY <1>1
<1>7. Fit(World)
  BY <1>6 DEF Fit, FitAt
<1>8. DocsAt(group.steps, Len(group.steps)) = {}
  BY <1>3 DEF DocsAt
<1>9. Fresh(World, transaction, touched)
  BY <1>6 DEF Fresh, Shown
<1>10. Sound(transaction)
  <2>1. DOMAIN transaction = {}
    BY <1>1
  <2> QED BY <2>1 DEF Sound
<1>11. Pages(World, group.steps, group.applied, transaction, stage, touched)
  BY <1>1, <1>3, <1>7, <1>8, <1>9, <1>10 DEF Pages
<1> QED BY <1>5, <1>11 DEF HeldHere

(* What the user finds when the turn has been undone or redone. *)
LEMMA HeldRestores ==
  ASSUME TypeOK, Calm => HeldHere
  PROVE  UndoRestoresApart
<1> SUFFICES ASSUME Apart, used.early = 0, Settled,
                    stage \in {"committed", "over"} \/ (stage = "compensated" /\ ~group.applied)
             PROVE  Restored
  BY DEF UndoRestoresApart, UndoRestores
<1>1. HeldHere /\ signal = {} /\ stage \notin {"before", "open"}
  BY DEF Settled, Calm
<1>2. World.disk = disk /\ World.page = page /\ World.signal = signal
  BY TypesAre, WorldsTypes
<1>3. PICK steps, n, T : steps = group.steps /\ n = Len(steps) /\ T = touched
  OBVIOUS
<1>4. PICK P : TrailOn(P, disk, steps, group.applied, stage, T, atBegin, atCommit)
  BY <1>1, <1>3 DEF HeldHere, Trail
<1>5. /\ disk = P[IF group.applied THEN n ELSE 0]
      /\ Begins(P, T, atBegin) /\ Ends(steps, P, T, atCommit) /\ Fit(World)
  BY <1>1, <1>3, <1>4 DEF TrailOn, HeldHere, Pages
<1>6. CASE group.applied
  <2>1. Final(World, steps, T)
    BY <1>1, <1>3, <1>6 DEF HeldHere, Pages
  <2>2. PICK X : X = DocsAt(steps, n)
    OBVIOUS
  <2>3. Bare(World, T, X) /\ \A u \in X \ T : Shown(World, u) /\ Has(World, u) = steps[n].docs[u].after
    BY <1>3, <2>1, <2>2 DEF Final
  <2>4. ASSUME NEW u \in Urls \ T PROVE Content(u) = atCommit[u]
    <3>1. atCommit[u] = IF u \in X THEN {steps[n].docs[u].after} ELSE P[n][u]
      BY <1>3, <1>5, <2>2 DEF Ends
    <3>2. CASE u \in X
      <4>1. page[u] # {} /\ u \notin signal /\ Text(u) = steps[n].docs[u].after
        BY <1>2, <2>3, <3>2 DEF Shown, Has, Text
      <4> QED BY <3>1, <3>2, <4>1 DEF Content
    <3>3. CASE u \notin X
      <4>1. u \in Urls \ (T \cup X)
        BY <3>3
      <4>2. Content(u) = disk[u]
        BY <1>5, <2>3, <4>1, PlainContent
      <4> QED BY <1>5, <1>6, <3>1, <3>3, <4>2
    <3> QED BY <3>2, <3>3
  <2> QED BY <1>3, <1>6, <2>4 DEF Restored
<1>7. CASE ~group.applied
  <2>1. PICK X : X = {}
    OBVIOUS
  <2>2. Bare(World, T, X)
    BY <1>1, <1>3, <1>7, <2>1 DEF HeldHere, Pages
  <2>3. ASSUME NEW u \in Urls \ T PROVE Content(u) = atBegin[u]
    <3>1. u \in Urls \ (T \cup X)
      BY <2>1
    <3>2. Content(u) = disk[u]
      BY <1>5, <2>2, <3>1, PlainContent
    <3> QED BY <1>5, <1>7, <3>2 DEF Begins
  <2> QED BY <1>3, <1>7, <2>3 DEF Restored
<1> QED BY <1>6, <1>7

(* As long as nobody saves or writes files and the watcher has the time to *)
(* report, undoing the turn of the agent gives every document that only    *)
(* the agent has changed the content it had when the turn began, redoing   *)
(* it the one it had when the turn ended, and so does an undo that its     *)
(* first step refuses: through files that are created, renamed and         *)
(* deleted, edits that were never saved, and pages that are closed         *)
(* meanwhile (transactionCommit, _transactionUndo, _transactionRedo).      *)
THEOREM DocumentUndoRestores == Spec => []UndoRestoresApart
<1>1. Init => (Apart => SavedHere)
  BY InitSaved
<1>2. TypeOK /\ (Apart => SavedHere) /\ [Next]_vars => (Apart => SavedHere)'
  BY SavedStep
<1>3. Init => (Calm => HeldHere)
  BY InitHeld
<1>4. TypeOK /\ TypeOK' /\ (Apart => SavedHere) /\ (Calm => HeldHere) /\ [Next]_vars => (Calm => HeldHere)'
  BY HeldStep
<1>5. TypeOK /\ (Calm => HeldHere) => UndoRestoresApart
  BY HeldRestores
<1> QED BY <1>1, <1>2, <1>3, <1>4, <1>5, DocumentTypeOK, PTL DEF Spec
=============================================================================
