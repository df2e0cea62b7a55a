------------------------------- MODULE GitLog -------------------------------
(***************************************************************************)
(* The graph of the log in processFinished (src/src/service/git/           *)
(* gitModule.cpp): a lane for every commit that is awaited, from left to   *)
(* right.  A commit is drawn in its lane and its parents take its place.   *)
(* One step is one record of git's output; git walks from the tip by       *)
(* parents, the newest first, and clocks may be wrong: a commit may come   *)
(* before one of its children.                                             *)
(***************************************************************************)
EXTENDS Integers, Sequences, FiniteSets

CONSTANT Size        \* bound: commits; 1 is the tip

ASSUME LogAssumption == Size \in Nat \ {0}

Commits == 1 .. Size

VARIABLES parents,   \* parents of each commit: a graph without cycles
          lanes,     \* hashes that are awaited
          laneCount,
          node       \* nodeHash: lane and row of each commit shown

drawn == <<parents, lanes, laneCount, node>>

Elements(s) == {s[i] : i \in DOMAIN s}
Distinct(s) == \A i, j \in DOMAIN s : s[i] = s[j] => i = j
Shown == DOMAIN node
Awaited == (UNION {Elements(parents[c]) : c \in Shown}) \ Shown

(* No parent or one, or two for a merge; every commit leads back to 1.     *)
Histories == {p \in [Commits -> {<< >>} \cup {<<c>> : c \in Commits}
                                 \cup {<<c, d>> : c, d \in Commits}] :
               \A c \in Commits :
                 /\ Distinct(p[c])
                 /\ \A d \in Elements(p[c]) : d > c
                 /\ c > 1 => \E b \in Commits : c \in Elements(p[b])}

LogInit == /\ parents \in Histories
           /\ lanes = << >>
           /\ laneCount = 0
           /\ node = [c \in {} |-> [lane |-> 0, row |-> 0]]

PutIn(rest, lane, new) == SubSeq(rest, 1, lane) \o new \o SubSeq(rest, lane + 1, Len(rest))

(* Mutant: a parent that is awaited already is given another lane. *)
InsertAll(rest, lane, new) == PutIn(rest, lane, new)

(* One turn of the loop over the parents: at is insertLane.                *)
InsertLane(s, c) ==
  IF c \in Elements(s.lanes) THEN s
  ELSE [lanes |-> PutIn(s.lanes, s.at, <<c>>), at |-> s.at + 1]

Insert(rest, lane, new) ==
  LET inserted[k \in 0 .. Len(new)] ==
        IF k = 0 THEN [lanes |-> rest, at |-> lane] ELSE InsertLane(inserted[k - 1], new[k])
  IN  inserted[Len(new)].lanes

Count(rest, new) == IF laneCount > Len(new) THEN laneCount ELSE Len(new)

Draw(c, lane, rest) ==
  /\ node' = [d \in Shown \cup {c} |-> IF d \in Shown THEN node[d]
                                       ELSE [lane |-> lane, row |-> Cardinality(Shown)]]
  /\ lanes' = Insert(rest, lane, parents[c])
  /\ laneCount' = Count(rest, lanes')
  /\ UNCHANGED parents

(* A hash that no lane awaits, as that of the tip, goes to the left.       *)
Tip == /\ Shown = {}
       /\ Draw(1, 0, lanes)

Row == \E i \in DOMAIN lanes :
         /\ lanes[i] \in Awaited
         /\ Draw(lanes[i], i - 1, SubSeq(lanes, 1, i - 1) \o SubSeq(lanes, i + 1, Len(lanes)))

LogNext == Tip \/ Row

LogSpec == LogInit /\ [][LogNext]_drawn

(* Every node is within the canvas, which is laneCount lanes wide but at   *)
(* least one: the lanes are counted between records, the node is placed    *)
(* within one.                                                             *)
NodesInCanvas == \A c \in Shown : node[c].lane < IF laneCount > 1 THEN laneCount ELSE 1

(* The lanes are those of the commits that are awaited, each once, as long *)
(* as the order was right.  A commit shown before one of its children      *)
(* keeps a lane for good.                                                  *)
InOrder == \A c \in Shown : \A d \in Elements(parents[c]) \cap Shown : node[c].row < node[d].row
LanesAreAwaited == Distinct(lanes) /\ (InOrder => Elements(lanes) = Awaited)

(* The graph of the log: every node lies within the canvas, and a lane is  *)
(* kept for every commit that is awaited, once (processFinished, Log).     *)
LogDrawn == NodesInCanvas /\ LanesAreAwaited
=============================================================================
