----------------------------- MODULE ArrayDiff ------------------------------
(***************************************************************************)
(* How Knockout finds out what has changed between two arrays, and the     *)
(* array operations whose changes it knows without comparing.              *)
(*                                                                         *)
(* An edit script is a sequence of entries: an item was "added", and where *)
(* it is now; "deleted", and where it was; or "retained".  An entry whose  *)
(* item was both deleted and added has the other place in "moved".         *)
(* Positions count from 1.                                                 *)
(***************************************************************************)
EXTENDS Integers, Sequences, SequencesExt

CONSTANT None

Entry(status, item, index) ==
  [status |-> status, value |-> item, index |-> index, moved |-> None]

Least(a, b) == IF a < b THEN a ELSE b
Greatest(a, b) == IF a < b THEN b ELSE a

(* FoldLeft, for long sequences: TLC evaluates each step's argument before *)
(* the step.                                                               *)
FoldInTurn(op(_, _), base, seq) ==
  FoldLeft(LAMBDA s, x : CHOOSE r \in {op(v, x) : v \in {s}} : TRUE, base, seq)

-----------------------------------------------------------------------------
(* The distance of each prefix of sml to each prefix of big, 0 where it is *)
(* not computed: matrix[i + 1][j + 1] for the first i and the first j.     *)

CompareRange(sml, big) == Greatest(Len(big) - Len(sml), 1)

OrMax(distance, sml, big) ==
  IF distance = 0 THEN Len(sml) + Len(big) + 1 ELSE distance

Distance(sml, big, i, j, lastRow, thisRow) ==
  IF j \notin Greatest(0, i - 1)..(i + CompareRange(sml, big)) THEN 0
  ELSE IF j = 0 THEN i + 1
  ELSE IF i = 0 THEN j + 1
  ELSE IF sml[i] = big[j] THEN lastRow[j]
  ELSE 1 + Least(OrMax(lastRow[j + 1], sml, big), OrMax(thisRow[j], sml, big))

Row(sml, big, i, lastRow) ==
  FoldLeft(LAMBDA row, j : Append(row, Distance(sml, big, i, j, lastRow, row)),
           <<>>, [j \in 1..(Len(big) + 1) |-> j - 1])

EditDistanceMatrix(sml, big) ==
  FoldLeft(LAMBDA rows, i :
             Append(rows, Row(sml, big, i, IF i = 0 THEN <<>> ELSE rows[i])),
           <<>>, [i \in 1..(Len(sml) + 1) |-> i - 1])

(* The way back through the matrix, from the last items to the first ones. *)
IsFrom(distance, neighbour) == neighbour # 0 /\ neighbour = distance - 1

StepBack(s, matrix, sml, big, notInSml, notInBig) ==
  LET d == matrix[s.i + 1][s.j + 1]
  IN  IF s.j > 0 /\ IsFrom(d, matrix[s.i + 1][s.j])
      THEN [s EXCEPT !.j = @ - 1,
                     !.script = Append(@, Entry(notInSml, big[s.j], s.j))]
      ELSE IF s.i > 0 /\ IsFrom(d, matrix[s.i][s.j + 1])
      THEN [s EXCEPT !.i = @ - 1,
                     !.script = Append(@, Entry(notInBig, sml[s.i], s.i))]
      ELSE [s EXCEPT !.i = @ - 1, !.j = @ - 1,
                     !.script = Append(@, Entry("retained", big[s.j], s.j))]

BackwardScript(matrix, sml, big, notInSml, notInBig) ==
  FoldLeft(LAMBDA s, k : IF s.i = 0 /\ s.j = 0 THEN s
                         ELSE StepBack(s, matrix, sml, big, notInSml, notInBig),
           [i |-> Len(sml), j |-> Len(big), script |-> <<>>],
           [k \in 1..(Len(sml) + Len(big)) |-> k]).script

-----------------------------------------------------------------------------
(* findMovesInArrayComparison: left and right are the places of entries in *)
(* the script; those of equal items are paired, until too many comparisons *)
(* in a row have failed.                                                   *)

Places(script, status) ==
  SelectSeq([k \in DOMAIN script |-> k], LAMBDA k : script[k].status = status)

Pair(script, k, m) ==
  [script EXCEPT ![k].moved = script[m].index, ![m].moved = script[k].index]

\* Mutation: the count of failed comparisons goes on after a match.
KeepCounting(s, k) ==
  LET r == SelectInSeq(s.right, LAMBDA m : s.script[m].value = s.script[k].value)
  IN  IF r = 0 THEN [s EXCEPT !.failed = @ + Len(s.right)]
      ELSE [s EXCEPT !.script = Pair(@, k, s.right[r]),
                     !.right = RemoveAt(@, r), !.failed = @ + r - 1]

TryToMatch(s, k) ==
  LET r == SelectInSeq(s.right, LAMBDA m : s.script[m].value = s.script[k].value)
  IN  IF r = 0 THEN [s EXCEPT !.failed = @ + Len(s.right)]
      ELSE [s EXCEPT !.script = Pair(@, k, s.right[r]),
                     !.right = RemoveAt(@, r), !.failed = 0]

FindMoves(script, left, right, limit) ==
  FoldLeft(LAMBDA s, k : IF limit # None /\ s.failed >= limit THEN s
                         ELSE TryToMatch(s, k),
           [script |-> script, right |-> right, failed |-> 0], left).script

CompareSmallToBig(sml, big, notInSml, notInBig) ==
  LET script == BackwardScript(EditDistanceMatrix(sml, big), sml, big,
                               notInSml, notInBig)
  IN  Reverse(FindMoves(script, Places(script, notInSml),
                        Places(script, notInBig), Len(sml) * 10))

CompareArrays(old, new) ==
  IF Len(old) <= Len(new)
  THEN CompareSmallToBig(old, new, "added", "deleted")
  ELSE CompareSmallToBig(new, old, "deleted", "added")

(* The option "sparse" leaves out what was retained.                       *)
CompareSparse(old, new) ==
  SelectSeq(CompareArrays(old, new), LAMBDA e : e.status # "retained")

-----------------------------------------------------------------------------
(* The operations of an array.  splice has the arguments of the call: the  *)
(* start counts from 0, from the end when it is negative; the count is     *)
(* None when there is no other argument than the start.                    *)

Op(name, items) == [name |-> name, items |-> items]

Splice(start, count, items) ==
  [name |-> "splice", start |-> start, count |-> count, items |-> items]

StartIndex(array, op) ==
  Least(Greatest(0, IF op.start < 0 THEN Len(array) + op.start ELSE op.start),
        Len(array))

DeleteCount(array, op) == IF op.count = None THEN Len(array) ELSE op.count

(* What the array itself does.                                             *)
Applied(array, op) ==
  CASE op.name = "push" -> array \o op.items
    [] op.name = "unshift" -> op.items \o array
    [] op.name = "pop" -> SubSeq(array, 1, Len(array) - 1)
    [] op.name = "shift" -> SubSeq(array, 2, Len(array))
    [] op.name = "reverse" -> Reverse(array)
    [] op.name = "splice" ->
         LET start == StartIndex(array, op)
         IN  SubSeq(array, 1, start) \o op.items \o
             SubSeq(array, start + Greatest(DeleteCount(array, op), 0) + 1, Len(array))

Added(items, offset) ==
  [k \in DOMAIN items |-> Entry("added", items[k], offset + k)]

DeletedAt(array, i) ==
  IF array = <<>> THEN <<>> ELSE <<Entry("deleted", array[i], i)>>

(* The entries of a splice come in the order of their positions.           *)
SpliceScript(array, op) ==
  LET start == StartIndex(array, op)
      endDelete == Least(start + DeleteCount(array, op), Len(array))
      endAdd == start + Len(op.items)
      deleted(i) == IF i <= endDelete THEN <<Entry("deleted", array[i], i)>> ELSE <<>>
      added(i) == IF i <= endAdd THEN <<Entry("added", op.items[i - start], i)>> ELSE <<>>
  IN  FlattenSeq([k \in 1..(Greatest(endDelete, endAdd) - start) |->
                    deleted(start + k) \o added(start + k)])

SpliceDiff(array, op) ==
  LET script == SpliceScript(array, op)
  IN  FindMoves(script, Places(script, "deleted"), Places(script, "added"), None)

(* What cacheDiffForKnownOperation caches; nothing for what reorders.      *)
IsKnown(op) == op.name \in {"push", "unshift", "pop", "shift", "splice"}

KnownDiff(array, op) ==
  CASE op.name = "push" -> Added(op.items, Len(array))
    [] op.name = "unshift" -> Added(op.items, 0)
    [] op.name = "pop" -> DeletedAt(array, Len(array))
    [] op.name = "shift" -> DeletedAt(array, 1)
    [] op.name = "splice" -> SpliceDiff(array, op)

-----------------------------------------------------------------------------
(* What a subscriber does with a diff: it takes out what was deleted, then *)
(* puts in what was added, from the front.                                 *)

Kept(array, diff) ==
  LET gone == {diff[k].index : k \in {k \in DOMAIN diff : diff[k].status = "deleted"}}
      places == SelectSeq([i \in DOMAIN array |-> i], LAMBDA i : i \notin gone)
  IN  [i \in DOMAIN places |-> array[places[i]]]

Replayed(array, diff) ==
  FoldLeft(LAMBDA a, e :
             IF e.index <= Len(a) + 1 THEN InsertAt(a, e.index, e.value)
             ELSE Append(a, e.value),
           Kept(array, diff), SelectSeq(diff, LAMBDA e : e.status = "added"))

=============================================================================
