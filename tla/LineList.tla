------------------------------ MODULE LineList ------------------------------
(* What the editor's document promises its callers: a sequence of lines,     *)
(* each with a height in text rows, of which a run is removed, into which a  *)
(* run is inserted, and whose heights change one at a time.                  *)
EXTENDS Naturals, Sequences

CONSTANTS Heights      \* the rows a line may take, 0 for a hidden one

VARIABLE lines         \* the lines in order, as [id, height]

Inserted(at, new) == SubSeq(lines, 1, at) \o new \o SubSeq(lines, at + 1, Len(lines))

Insert ==
  \E at \in 0..Len(lines) :
    LET new == SubSeq(lines', at + 1, at + Len(lines') - Len(lines))
    IN  /\ new # <<>>
        /\ \A i \in 1..Len(new) : new[i].height = 1
        /\ lines' = Inserted(at, new)

Remove ==
  \E at, n \in 0..Len(lines) :
    /\ n > 0 /\ at + n <= Len(lines) /\ n < Len(lines)
    /\ lines' = SubSeq(lines, 1, at) \o SubSeq(lines, at + n + 1, Len(lines))

SetHeight ==
  \E i \in 1..Len(lines), h \in Heights : lines' = [lines EXCEPT ![i].height = h]

Init == Len(lines) = 1 /\ lines[1].height = 1
Next == Insert \/ Remove \/ SetHeight
Spec == Init /\ [][Next]_lines
=============================================================================
