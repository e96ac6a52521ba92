------------------------------ MODULE LineTree ------------------------------
(* The tree that holds the lines of the script editor                        *)
(* (plugins/codemirror/codemirror.js): LeafChunk and BranchChunk with their  *)
(* cached sizes and heights and their parent pointers, kept by hand through  *)
(* insertions that spill full chunks into new ones and removals that         *)
(* collapse small ones, and the four queries that walk it.                   *)
(*                                                                           *)
(* Chunks are objects in a store.  The numbers of the code (a leaf of 50     *)
(* lines spills 25, a branch of 10 chunks spills 5, below 25 lines a branch  *)
(* collapses to one leaf) are constants.                                     *)
EXTENDS Integers, Sequences, SequencesExt, FiniteSetsExt

CONSTANTS LeafMax, LeafSpill,      \* 50 and 25 in the code
          BranchMax, BranchSpill,  \* 10 and 5
          CollapseBelow,           \* 25
          Heights,                 \* the rows a line may take, 0 for a hidden one
          MaxInsert,               \* bound: lines inserted at once
          MaxLines,                \* bound: lines of the document
          MaxOps                   \* bound: operations

VARIABLES store,     \* the chunks: [leaf, kids, size, height, parent]
          line,      \* the lines: [height, parent]
          flat,      \* history variable: the lines in the order of the tree
          ops        \* operations so far

vars == <<store, line, flat, ops>>

Root == 1
null == 0
MaxId == 4 * MaxLines
Unused(f) == Min((1..MaxId) \ DOMAIN f)
Fewer(a, b) == IF a < b THEN a ELSE b

(* s is a pair of the store and the lines, which an operation takes through  *)
(* its steps.                                                                *)
ChunkSize(s, c) == IF s.store[c].leaf THEN Len(s.store[c].kids) ELSE s.store[c].size
Sum(f(_), seq) == FoldLeft(LAMBDA n, x : n + f(x), 0, seq)
LineHeights(s, ls) == Sum(LAMBDA l : s.line[l].height, ls)

(* What is written to the chunks or lines in S. *)
Written(f, S, write(_)) == [x \in S |-> write(f[x])] @@ f

(* new LeafChunk(lines): the lines point to it; the caller sets its parent. *)
WithLeaf(s, id, ls, parent) ==
  [store |-> (id :> [leaf |-> TRUE, kids |-> ls, size |-> 0,
                     height |-> LineHeights(s, ls), parent |-> parent]) @@ s.store,
   line  |-> Written(s.line, ToSet(ls), LAMBDA l : [l EXCEPT !.parent = id])]

(* new BranchChunk(children) *)
WithBranch(s, id, kids, parent) ==
  [s EXCEPT !.store =
     (id :> [leaf |-> FALSE, kids |-> kids, parent |-> parent,
             size |-> Sum(LAMBDA k : ChunkSize(s, k), kids),
             height |-> Sum(LAMBDA k : s.store[k].height, kids)])
       @@ Written(@, ToSet(kids), LAMBDA k : [k EXCEPT !.parent = id])]

RECURSIVE Collapse(_, _)
Collapse(s, c) ==
  IF s.store[c].leaf THEN s.store[c].kids
  ELSE FlattenSeq([i \in DOMAIN s.store[c].kids |-> Collapse(s, s.store[c].kids[i])])

(* The end of BranchChunk.remove: a small branch becomes a branch of one leaf. *)
Collapsed(s, c) ==
  IF s.store[c].size >= CollapseBelow THEN s
  ELSE LET leaf == Unused(s.store)
       IN  [WithLeaf(s, leaf, Collapse(s, c), c) EXCEPT !.store[c].kids = <<leaf>>]

(* Mutant: the height of the branch is not adapted to its chunk's. *)
Shrunk_NotHeight(s, c, i, heightBefore, emptied) ==
  IF emptied THEN [s EXCEPT !.store[c].kids = RemoveAt(@, i)] ELSE s

(* After a removal in the i-th chunk of a branch. *)
Shrunk(s, c, i, heightBefore, emptied) ==
  LET kid == s.store[c].kids[i]
  IN  [s EXCEPT !.store[c].height = @ - (heightBefore - s.store[kid].height),
                !.store[c].kids = IF emptied THEN RemoveAt(@, i) ELSE @]

(* remove of both kinds of chunks; RemoveFrom is the loop of a branch from   *)
(* its i-th chunk on.                                                        *)
RECURSIVE RemoveIn(_, _, _, _), RemoveFrom(_, _, _, _, _)
RemoveIn(s, c, at, n) ==
  IF s.store[c].leaf
  THEN LET gone == SubSeq(s.store[c].kids, at + 1, at + n)
       IN  [store |-> [s.store EXCEPT ![c].height = @ - LineHeights(s, gone),
                                      ![c].kids = SubSeq(@, 1, at) \o SubSeq(@, at + n + 1, Len(@))],
            line  |-> Written(s.line, ToSet(gone), LAMBDA l : [l EXCEPT !.parent = null])]
  ELSE Collapsed(RemoveFrom([s EXCEPT !.store[c].size = @ - n], c, 1, at, n), c)
RemoveFrom(s, c, i, at, n) ==
  LET kid == s.store[c].kids[i]
      sz  == ChunkSize(s, kid)
      rm  == Fewer(n, sz - at)
  IN  CASE n = 0 -> s
        [] n > 0 /\ at < sz ->
             RemoveFrom(Shrunk(RemoveIn(s, kid, at, rm), c, i, s.store[kid].height, sz = rm),
                        c, IF sz = rm THEN i ELSE i + 1, 0, n - rm)
        [] n > 0 /\ at >= sz -> RemoveFrom(s, c, i + 1, at - sz, n)

(* One round of the loop of maybeSpill: the last chunks of a full branch go  *)
(* to a sibling; the root stays and takes a copy of itself in between.       *)
SplitBranch(s, me) ==
  LET kids    == s.store[me].kids
      kept    == SubSeq(kids, 1, Len(kids) - BranchSpill)
      sibling == Unused(s.store)
      parent  == s.store[me].parent
      s1      == WithBranch(s, sibling, SubSeq(kids, Len(kept) + 1, Len(kids)), parent)
      copy    == Unused(s1.store)
  IN  IF parent = null
      THEN [s |-> [WithBranch(s1, copy, kept, me) EXCEPT
                     !.store[me].kids = <<copy, sibling>>, !.store[sibling].parent = me],
            me |-> copy]
      ELSE [s |-> [s1 EXCEPT
                     !.store[me].kids = kept,
                     !.store[me].size = @ - s1.store[sibling].size,
                     !.store[me].height = @ - s1.store[sibling].height,
                     !.store[parent].kids = InsertAt(@, SelectInSeq(@, LAMBDA k : k = me) + 1, sibling)],
            me |-> me]

RECURSIVE MaybeSpill(_, _), SpillRounds(_, _)
MaybeSpill(s, me) == IF Len(s.store[me].kids) <= BranchMax THEN s ELSE SpillRounds(s, me)
SpillRounds(s, me) ==
  LET r == SplitBranch(s, me)
  IN  IF Len(r.s.store[r.me].kids) > BranchMax THEN SpillRounds(r.s, r.me)
      ELSE MaybeSpill(r.s, r.s.store[r.me].parent)

(* Mutant: the new leaf comes before the one it is taken from. *)
SplitLeaf_Before(s, c, i) ==
  LET kid     == s.store[c].kids[i]
      kept    == Len(s.store[kid].kids) - LeafSpill
      spilled == SubSeq(s.store[kid].kids, kept + 1, kept + LeafSpill)
      leaf    == Unused(s.store)
  IN  [WithLeaf(s, leaf, spilled, c) EXCEPT
         !.store[kid].kids = SubSeq(@, 1, kept),
         !.store[kid].height = @ - LineHeights(s, spilled),
         !.store[c].kids = InsertAt(@, i, leaf)]

(* One round of the loop of insertHeight over the i-th chunk of branch c: the *)
(* last lines go to a new leaf right behind it.                              *)
SplitLeaf(s, c, i) ==
  LET kid     == s.store[c].kids[i]
      kept    == Len(s.store[kid].kids) - LeafSpill
      spilled == SubSeq(s.store[kid].kids, kept + 1, kept + LeafSpill)
      leaf    == Unused(s.store)
  IN  [WithLeaf(s, leaf, spilled, c) EXCEPT
         !.store[kid].kids = SubSeq(@, 1, kept),
         !.store[kid].height = @ - LineHeights(s, spilled),
         !.store[c].kids = InsertAt(@, i + 1, leaf)]

RECURSIVE SpillLeaf(_, _, _)
SpillLeaf(s, c, i) ==
  IF Len(s.store[s.store[c].kids[i]].kids) <= LeafMax THEN s ELSE SpillLeaf(SplitLeaf(s, c, i), c, i)

(* insertHeight of both kinds of chunks. *)
RECURSIVE InsertIn(_, _, _, _)
InsertIn(s, c, at, new) ==
  LET kids      == s.store[c].kids
      before(i) == Sum(LAMBDA k : ChunkSize(s, k), SubSeq(kids, 1, i - 1))
      i         == Min({j \in DOMAIN kids : at - before(j) <= ChunkSize(s, kids[j])})
      grown     == [s EXCEPT !.store[c].size = @ + Len(new),
                             !.store[c].height = @ + LineHeights(s, new)]
      s1        == InsertIn(grown, kids[i], at - before(i), new)
  IN  CASE s.store[c].leaf ->
             [store |-> [s.store EXCEPT ![c].height = @ + LineHeights(s, new),
                           ![c].kids = SubSeq(@, 1, at) \o new \o SubSeq(@, at + 1, Len(@))],
              line  |-> Written(s.line, ToSet(new), LAMBDA l : [l EXCEPT !.parent = c])]
        [] ~s.store[c].leaf /\ s1.store[kids[i]].leaf /\ Len(s1.store[kids[i]].kids) > LeafMax ->
             MaybeSpill(SpillLeaf(s1, c, i), c)
        [] OTHER -> s1

-----------------------------------------------------------------------------
State == [store |-> store, line |-> line]

DocSize == store[Root].size

RECURSIVE Below(_, _)
Below(s, c) ==
  {c} \cup (IF s.store[c].leaf THEN {} ELSE UNION {Below(s, k) : k \in ToSet(s.store[c].kids)})

Flat(s) == LET ls == Collapse(s, Root)
           IN  [i \in DOMAIN ls |-> [id |-> ls[i], height |-> s.line[ls[i]].height]]

(* The new state; chunks and lines out of the tree are forgotten. *)
Becomes(s) ==
  /\ flat' = Flat(s)
  /\ store' = [c \in Below(s, Root) |-> s.store[c]]
  /\ line' = [l \in {flat'[i].id : i \in DOMAIN flat'} |-> s.line[l]]
  /\ ops' = ops + 1

Init ==
  /\ store = (Root :> [leaf |-> FALSE, kids |-> <<2>>, size |-> 1, height |-> 1, parent |-> null])
               @@ (2 :> [leaf |-> TRUE, kids |-> <<1>>, size |-> 0, height |-> 1, parent |-> Root])
  /\ line = (1 :> [height |-> 1, parent |-> 2])
  /\ flat = <<[id |-> 1, height |-> 1]>>
  /\ ops = 0

(* doc.insert of new Line objects, which are one row high. *)
InsertLines ==
  \E at \in 0..DocSize, n \in 1..MaxInsert :
    LET free == (1..MaxId) \ DOMAIN line
        new  == [i \in 1..n |-> CHOOSE x \in free : Cardinality({y \in free : y < x}) = i - 1]
    IN  /\ ops < MaxOps /\ DocSize + n <= MaxLines
        /\ Becomes(InsertIn([State EXCEPT !.line =
                               [l \in ToSet(new) |-> [height |-> 1, parent |-> null]] @@ @],
                            Root, at, new))

(* doc.remove, which updateLines never asks for the whole document. *)
RemoveLines ==
  \E at \in 0..DocSize, n \in 1..DocSize :
    /\ ops < MaxOps /\ at + n <= DocSize /\ n < DocSize
    /\ Becomes(RemoveIn(State, Root, at, n))

(* updateLineHeight: the line and every chunk above it. *)
RECURSIVE Above(_)
Above(c) == IF c = null THEN {} ELSE {c} \cup Above(store[c].parent)
UpdateLineHeight ==
  \E l \in DOMAIN line, h \in Heights :
    /\ ops < MaxOps /\ h # line[l].height
    /\ Becomes([store |-> Written(store, Above(line[l].parent),
                                  LAMBDA c : [c EXCEPT !.height = @ + (h - line[l].height)]),
                line  |-> [line EXCEPT ![l].height = h]])

Next == InsertLines \/ RemoveLines \/ UpdateLineHeight

Spec == Init /\ [][Next]_vars

-----------------------------------------------------------------------------
(* The child of a branch that a walk for the n-th of something (lines, rows) *)
(* goes down to, and what is left to go there.                               *)
Down(c, n, measure(_)) ==
  LET kids      == store[c].kids
      before(i) == Sum(measure, SubSeq(kids, 1, i - 1))
      i         == Min({j \in DOMAIN kids : n < before(j) + measure(kids[j])})
  IN  [kid |-> kids[i], index |-> i, left |-> n - before(i)]
SizeOf(c) == ChunkSize(State, c)
HeightOf(c) == store[c].height

RECURSIVE GetLineAt(_, _), LineAtHeight(_, _), HeightAtLine(_, _), LinesBefore(_, _)
GetLineAt(c, n) ==
  IF store[c].leaf THEN store[c].kids[n + 1]
  ELSE LET d == Down(c, n, SizeOf) IN GetLineAt(d.kid, d.left)

(* lineNo climbs the parents. *)
LinesBefore(c, no) ==
  LET parent == store[c].parent
      index  == SelectInSeq(store[parent].kids, LAMBDA k : k = c)
  IN  IF parent = null THEN no
      ELSE LinesBefore(parent, no + Sum(SizeOf, SubSeq(store[parent].kids, 1, index - 1)))
LineNo(l) ==
  LinesBefore(line[l].parent, SelectInSeq(store[line[l].parent].kids, LAMBDA k : k = l) - 1)

LineAtHeight(c, h) ==
  LET kids == store[c].kids
      sum(i) == LineHeights(State, SubSeq(kids, 1, i))
  IN  CASE store[c].leaf -> Cardinality({i \in DOMAIN kids : sum(i) <= h})
        [] ~store[c].leaf /\ h >= Sum(HeightOf, kids) -> Sum(SizeOf, kids)
        [] OTHER -> LET d == Down(c, h, HeightOf)
                    IN  Sum(SizeOf, SubSeq(kids, 1, d.index - 1)) + LineAtHeight(d.kid, d.left)

HeightAtLine(c, n) ==
  LET kids == store[c].kids
  IN  CASE store[c].leaf -> LineHeights(State, SubSeq(kids, 1, n))
        [] ~store[c].leaf /\ n >= Sum(SizeOf, kids) -> Sum(HeightOf, kids)
        [] OTHER -> LET d == Down(c, n, SizeOf)
                    IN  Sum(HeightOf, SubSeq(kids, 1, d.index - 1)) + HeightAtLine(d.kid, d.left)

(* The queries answer as a walk over the plain sequence of the lines would,  *)
(* so every cached size and height and every parent pointer on their way is  *)
(* right after any series of spills and collapses.                           *)
QueriesAgree ==
  LET rows(n) == Sum(LAMBDA l : l.height, SubSeq(flat, 1, n))
  IN  /\ DocSize = Len(flat) /\ store[Root].height = rows(DocSize)
      /\ \A n \in 1..DocSize : GetLineAt(Root, n - 1) = flat[n].id /\ LineNo(flat[n].id) = n - 1
      /\ \A n \in 0..DocSize : HeightAtLine(Root, n) = rows(n)
      /\ \A h \in 0..rows(DocSize) :
           LineAtHeight(Root, h) = Cardinality({n \in 1..DocSize : rows(n) <= h})

(* No chunk stays overfull, which keeps the walks short. *)
ChunksBounded ==
  \A c \in DOMAIN store : Len(store[c].kids) <= (IF store[c].leaf THEN LeafMax ELSE BranchMax)

(* The tree implements a plain list of lines, whose order `flat` records. *)
List == INSTANCE LineList WITH lines <- flat
ImplementsLineList == List!Spec
=============================================================================
